---- MODULE Spec2Model ----
(***************************************************************************)
(* State-machine model of the page cache (Store), the JSON loader          *)
(* (DataLoader), the hash router (Router) and the page-load pipeline       *)
(* (Application.loadPage / Page.load) of the gallery single-page app.      *)
(*                                                                         *)
(* Three specifications share the variables:                               *)
(*   SpecStore   Store operations called directly, session-storage writes  *)
(*               succeeding, failing with a quota error or failing with    *)
(*               another error;                                            *)
(*   SpecLoader  DataLoader.loadJSON calls, each with its own cancel       *)
(*               signal, against the Store;                                *)
(*   SpecNav     Router.navigate -> Application.loadPage -> Page.load ->   *)
(*               DataLoader, with main-content and the loading indicator.  *)
(* Every handler runs to its next await in one action (the browser runs a  *)
(* task and its microtasks without interleaving).                          *)
(***************************************************************************)
EXTENDS Integers, Sequences, FiniteSets, TLC

\* ---------------------------------------------------------------- bounds
\* Largest serialized payload, in bytes (payload p serializes to p bytes).
MaxPayload == 3
\* Store.maxSize, the byte budget, scaled from 5 * 1024 * 1024.
maxSize == 2
\* Store.cacheMaxAge, scaled from one hour to clock ticks.
cacheMaxAge == 1
\* Last value of the clock Date.now().
MaxTime == 3
\* Number of loadJSON calls / navigations in one behaviour.
MaxLoads == 2
\* Number of Store operations called directly in one behaviour.
MaxOps == 3
\* Largest value of the retries argument of loadJSON.
MaxRetries == 3
\* Store calls made under failing storage
MaxCalls == 2
\* Preloader.maxCacheSize, scaled down from 100.
maxCacheSize == 2
\* BATCH_SIZE of preloadFromData, scaled down from 5.
batchSize == 2
\* Number of distinct media URLs.
MaxUrls == 3
\* Number of preloadImage / preloadVideo calls in one behaviour.
MaxPreloads == 3

\* The validate calls made on one DataValidator.
MaxValidations == 2

\* The callbacks, the on / once calls, the emit calls from outside a
\* callback and the depth of emits nested in callbacks.
MaxCallbacks == 3
MaxSubscriptions == 3
MaxEmits == 2
MaxDepth == 1

\* The markups, the page keyboard handlers, the open calls and the depth of
\* the content stack of the modal.
MaxContents == 2
MaxPageHandlers == 1
MaxHandlers == 3
MaxStack == 2

\* The items of the carousel and the items shown at once.
MaxItems == 3
MaxPerView == 2

\* The items of a grid list and the lists one grid is given.
MaxGridItems == 2
MaxGenerations == 3

\* ------------------------------------------------------------- constants
\* Default of the retries parameter of DataLoader.loadJSON.
DefaultRetries == 3
\* Base of the linear backoff in DataLoader.loadJSON, in milliseconds.
RetryBaseDelay == 1000

\* null as a payload (payloads are positive)
Null == 0
\* undefined as a timestamp (Date.now() is positive)
Undef == 0
\* getItem of a key that is not stored
NoItem == <<>>
\* no route
NoRoute == "none"

\* Object.keys(this.state): the route table in insertion order (a prefix of
\* the six routes of the fallback table).
RouteOrder == <<"main", "collections", "screenshots">>

Routes == {RouteOrder[i] : i \in 1..Len(RouteOrder)}

RouteIndex(r) == CHOOSE i \in 1..Len(RouteOrder) : RouteOrder[i] = r

\* A validated payload, identified by the byte length of its serialization.
Payloads == 1..MaxPayload

\* JSON.stringify(data): the string stored under spa-cache-<route>.
Stringify(p) == <<"json", p>>

\* A stored string that is not JSON (written by something else, or cut).
Corrupt == <<"bad", 1>>

\* JSON.parse(cached) returns rather than throws.
Parses(s) == s[1] = "json"

\* JSON.parse(cached)
Parse(s) == s[2]

\* new Blob([s]).size
BlobSize(s) == s[2]

VARIABLES
    state,               \* Store.state: route -> payload or Null
    lastUsed,            \* Store.lastUsed: route -> time or Undef
    lastLoadTime,        \* Store.lastLoadTime: route -> time or Undef
    currentSize,         \* Store.currentSize
    transientStore,      \* sessionStorage: route -> string or Null
    now,                 \* Date.now()
    lastOp,              \* history: the last Store operation and its result
    ops,                 \* number of Store operations called directly so far
    loads,               \* the loadJSON / loadPage calls, by id
    aborted,             \* AbortSignal.aborted of the signal of each call
    nextId,              \* id of the next call
    routerUp,            \* FALSE once Router.cleanup has run
    abortController,     \* Router.abortController: id of its signal, 0 = null
    currentRoute,        \* Router.currentRoute
    currentLoadingRoute, \* Application.currentLoadingRoute
    content,             \* what main-content holds
    rafHides,            \* pending requestAnimationFrame hideLoader callbacks
    lastNet,             \* history: the last successful network load
    settled,             \* history: the call that settled in the last step
    persistentStore,     \* localStorage: durable key -> string or NoItem
    present,             \* which storage objects the Store constructor got
    lastCall,            \* history: the last Store call under failing storage
    loadedImages,        \* Preloader.loadedImages: Map url -> timestamp
    loadedVideos,        \* Preloader.loadedVideos: Map url -> timestamp
    elements,            \* the preloadImage / preloadVideo calls, by id
    nextEl,              \* id of the next preload call
    queue,               \* allUrls of preloadFromData not handed to a batch yet
    dataCall,            \* history: the last preloadFromData call and its batches
    mediaData,           \* the data handed to extractMediaUrls
    extracted,           \* what extractMediaUrls returned, NoResult before the call
    validatorErrors,     \* DataValidator.errors
    validated,           \* history: the last validate call and its outcome
    validations,         \* number of validate calls so far
    listeners,           \* EventBus.listeners.get(event), <<>> without the key
    behaviour,           \* what each callback does when invoked
    lastEmit,            \* history: the last emit from outside a callback
    onceCalls,           \* history: invocations through each wrapper of once
    subscriptions,       \* number of on / once calls so far
    emits,               \* number of emit calls from outside so far
    modalContent,        \* Modal.modalContent.innerHTML
    contentStack,        \* Modal.contentStack
    active,              \* Modal.isOpen(): the class active on the modal
    ariaHidden,          \* aria-hidden of each element outside the modal
    elementsToHide,      \* what hideElementsOutsideModal finds in the document
    hiddenElements,      \* Modal.hiddenElements
    focusTrapHandler,    \* Modal.focusTrapHandler, 0 = null
    keyboardHandler,     \* Modal.keyboardHandler, 0 = null
    keydown,             \* the keydown listeners registered on document
    nextHandler,         \* id of the next focus trap closure
    modalLog,            \* history: the last call on the modal
    currentIndex,        \* Carousel.currentIndex
    totalItems,          \* Carousel.totalItems
    itemsPerView,        \* Carousel.options.itemsPerView
    loop,                \* Carousel.options.loop
    carouselLog,         \* history: the last call on the carousel
    generation,          \* which list VirtualizedGrid.items is: 1, 2, ...
    itemCount,           \* VirtualizedGrid.placeholders.length
    placeholderContent,  \* innerHTML of each placeholder in the container
    observed,            \* the placeholders the observer observes
    intersecting,        \* the placeholders the observer last saw in view
    renderedItems,       \* VirtualizedGrid.renderedItems
    isRendering,         \* VirtualizedGrid.isRendering
    frames,              \* the requestAnimationFrame callbacks not run yet
    reported,            \* history: the placeholders reported as intersecting
    renders              \* history: how often each item has been rendered

storeVars == <<state, lastUsed, lastLoadTime, currentSize, transientStore>>

loadVars == <<loads, aborted, nextId, lastNet, settled>>

navVars == <<routerUp, abortController, currentRoute, currentLoadingRoute>>

domVars == <<content, rafHides>>

envVars == <<persistentStore, present, lastCall>>

mediaVars == <<loadedImages, loadedVideos, elements, nextEl, queue, dataCall>>

\* The arguments and results of the functions applied on their own.
pureVars == <<mediaData, extracted, validatorErrors, validated, validations>>

busVars == <<listeners, behaviour, lastEmit, onceCalls, subscriptions, emits>>

modalVars == <<modalContent, contentStack, active, ariaHidden, elementsToHide,
               hiddenElements, focusTrapHandler, keyboardHandler, keydown,
               nextHandler, modalLog>>

carouselVars == <<currentIndex, totalItems, itemsPerView, loop, carouselLog>>

gridVars == <<generation, itemCount, placeholderContent, observed, intersecting,
              renderedItems, isRendering, frames, reported, renders>>

\* The state of the components that stand apart from the loading path.
widgetVars == <<pureVars, busVars, modalVars, carouselVars, gridVars>>

\* The variables the cache, loader and navigation handlers never touch.
auxVars == <<envVars, mediaVars, widgetVars>>

vars == <<state, lastUsed, lastLoadTime, currentSize, transientStore, now,
          lastOp, ops, loads, aborted, nextId, routerUp, abortController,
          currentRoute, currentLoadingRoute, content, rafHides, lastNet,
          settled, persistentStore, present, lastCall, loadedImages,
          loadedVideos, elements, nextEl, queue, dataCall, mediaData,
          extracted, validatorErrors, validated, validations, listeners,
          behaviour, lastEmit, onceCalls, subscriptions, emits, modalContent,
          contentStack, active, ariaHidden, elementsToHide, hiddenElements,
          focusTrapHandler, keyboardHandler, keydown, nextHandler, modalLog,
          currentIndex, totalItems, itemsPerView, loop, carouselLog,
          generation, itemCount, placeholderContent, observed, intersecting,
          renderedItems, isRendering, frames, reported, renders>>

Max(a, b) == IF a > b THEN a ELSE b

\* ------------------------------------------------------------------ Store
\* The Store object as one value, so that its methods are operators.
St == [state |-> state, lastUsed |-> lastUsed, lastLoadTime |-> lastLoadTime,
       currentSize |-> currentSize, transientStore |-> transientStore]

\* The filter of Store.evictOldest.
Eligible(S, excludeRoute) ==
    {r \in Routes : r # excludeRoute /\ S.state[r] # Null /\ S.lastUsed[r] # Undef}

\* The comparator of the (stable) sort of Store.evictOldest.
OlderFirst(S, a, b) ==
    \/ S.lastUsed[a] < S.lastUsed[b]
    \/ S.lastUsed[a] = S.lastUsed[b] /\ RouteIndex(a) < RouteIndex(b)

\* routesWithTime of Store.evictOldest.
RoutesWithTime(S, excludeRoute) ==
    LET E == Eligible(S, excludeRoute)
        n == Cardinality(E)
    IN  CHOOSE seq \in [1..n -> E] :
            /\ \A i, j \in 1..n : i # j => seq[i] # seq[j]
            /\ \A i, j \in 1..n : i < j => OlderFirst(S, seq[i], seq[j])

RECURSIVE EvictLoop(_, _, _, _, _, _)
\* The for loop of Store.evictOldest; ev collects the evicted routes.
EvictLoop(S, seq, k, freedSpace, requiredSpace, ev) ==
    IF k > Len(seq) \/ freedSpace >= requiredSpace
    THEN [s |-> S, ev |-> ev]
    ELSE LET route == seq[k]
             cached == S.transientStore[route]
         IN  IF cached # NoItem
             THEN EvictLoop([S EXCEPT !.state[route] = Null,
                                      !.lastUsed[route] = Undef,
                                      !.lastLoadTime[route] = Undef,
                                      !.transientStore[route] = NoItem,
                                      !.currentSize = @ - BlobSize(cached)],
                            seq, k + 1, freedSpace + BlobSize(cached),
                            requiredSpace, Append(ev, route))
             ELSE EvictLoop(S, seq, k + 1, freedSpace, requiredSpace, ev)

EvictOldest(S, requiredSpace, excludeRoute) ==
    EvictLoop(S, RoutesWithTime(S, excludeRoute), 1, 0, requiredSpace, <<>>)

\* The catch block of the second setItem in Store.set.
SetRollback(S, route, dataSize, oldSize) ==
    [S EXCEPT !.currentSize = @ - dataSize + oldSize,
              !.state[route] = IF oldSize > 0 THEN @ ELSE Null]

\* Store.set(route, data); w1 and w2 are the results of the first and of the
\* second setItem.
StoreSet(S, route, data, w1, w2, t) ==
    LET dataString == Stringify(data)
        dataSize == BlobSize(dataString)
        oldSize == IF S.state[route] # Null /\ S.transientStore[route] # NoItem
                   THEN BlobSize(S.transientStore[route]) ELSE 0
        newTotalSize == S.currentSize - oldSize + dataSize
        E1 == IF newTotalSize > maxSize
              THEN EvictOldest(S, Max(0, newTotalSize - maxSize), route)
              ELSE [s |-> S, ev |-> <<>>]
        S2 == [E1.s EXCEPT !.state[route] = data,
                           !.currentSize = @ - oldSize + dataSize,
                           !.lastUsed[route] = t,
                           !.lastLoadTime[route] = t]
        E2 == EvictOldest(S2, dataSize, route)
    IN  CASE w1 = "ok" ->
               [s |-> [S2 EXCEPT !.transientStore[route] = dataString],
                ev |-> E1.ev, ev2 |-> <<>>]
          [] w1 = "other" -> [s |-> S2, ev |-> E1.ev, ev2 |-> <<>>]
          [] w1 = "quota" /\ w2 = "ok" ->
               [s |-> [E2.s EXCEPT !.transientStore[route] = dataString],
                ev |-> E1.ev, ev2 |-> E2.ev]
          [] OTHER ->
               [s |-> SetRollback(E2.s, route, dataSize, oldSize),
                ev |-> E1.ev, ev2 |-> E2.ev]

\* A get that also stamps the last-loaded time of every payload it returns.
StoreGetStamping(S, route, t) ==
    IF S.state[route] # Null
    THEN [s |-> [S EXCEPT !.lastUsed[route] = t, !.lastLoadTime[route] = t],
          result |-> S.state[route]]
    ELSE [s |-> S, result |-> Null]

\* Store.get(route)
StoreGet(S, route, t) ==
    IF S.state[route] # Null
    THEN [s |-> [S EXCEPT !.lastUsed[route] = t], result |-> S.state[route]]
    ELSE LET cached == S.transientStore[route]
         IN  IF cached # NoItem /\ Parses(cached)
             THEN [s |-> [S EXCEPT
                            !.state[route] = Parse(cached),
                            !.currentSize = IF S.lastUsed[route] = Undef
                                            THEN @ + BlobSize(cached) ELSE @,
                            !.lastUsed[route] = t,
                            !.lastLoadTime[route] =
                                IF @ = Undef THEN t ELSE @],
                   result |-> Parse(cached)]
             ELSE [s |-> S, result |-> Null]

\* Store.clear(route) with a route
StoreClear(S, route) ==
    [S EXCEPT !.currentSize = IF S.transientStore[route] # NoItem
                              THEN @ - BlobSize(S.transientStore[route]) ELSE @,
              !.state[route] = Null,
              !.lastUsed[route] = Undef,
              !.lastLoadTime[route] = Undef,
              !.transientStore[route] = NoItem]

RECURSIVE ClearEach(_, _)
\* Store.clear() without argument: the forEach over Object.keys(this.state)
ClearEach(S, k) ==
    IF k > Len(RouteOrder) THEN S
    ELSE ClearEach(StoreClear(S, RouteOrder[k]), k + 1)

StoreClearAll(S) == ClearEach(S, 1)

\* A staleness test that never fires.
IsStaleNever(age) == FALSE

\* The staleness test of Store.has
IsStale(age) == age > cacheMaxAge

\* Store.has(route)
StoreHas(S, route, t) ==
    LET hasInMemory == S.state[route] # Null
        hasInStorage == S.transientStore[route] # NoItem
        lastLoad == S.lastLoadTime[route]
    IN  IF ~hasInMemory /\ ~hasInStorage
        THEN [s |-> S, result |-> FALSE]
        ELSE IF lastLoad # Undef
             THEN IF IsStale(t - lastLoad)
                  THEN [s |-> StoreClear(S, route), result |-> FALSE]
                  ELSE [s |-> S, result |-> TRUE]
             ELSE [s |-> StoreClear(S, route), result |-> FALSE]

RECURSIVE LoadEach(_, _, _)
\* Store.loadFromSessionStorage: the forEach over the routes
LoadEach(S, k, t) ==
    IF k > Len(RouteOrder) THEN S
    ELSE LET route == RouteOrder[k]
             cached == S.transientStore[route]
         IN  IF cached # NoItem /\ Parses(cached)
             THEN LoadEach([S EXCEPT !.state[route] = Parse(cached),
                                     !.currentSize = @ + BlobSize(cached),
                                     !.lastUsed[route] = t,
                                     !.lastLoadTime[route] = t],
                           k + 1, t)
             ELSE LoadEach(S, k + 1, t)

\* new Store(): the constructor, over what sessionStorage holds
StoreNew(ss, t) ==
    LoadEach([state |-> [r \in Routes |-> Null],
              lastUsed |-> [r \in Routes |-> Undef],
              lastLoadTime |-> [r \in Routes |-> Undef],
              currentSize |-> 0,
              transientStore |-> ss], 1, t)

\* ------------------------------------------------- initial state, history
NoOp == [op |-> "none", route |-> NoRoute, found |-> FALSE, removed |-> FALSE]

NoNet == [route |-> NoRoute, data |-> Null, t |-> 0]

\* main-content with nothing in it
Empty == [kind |-> "empty", by |-> 0, route |-> NoRoute, data |-> Null,
          faded |-> FALSE]

IdleLoad == [pc |-> "idle", route |-> NoRoute, signal |-> 0, showLoader |-> FALSE,
             forceReload |-> FALSE, retries |-> 0, i |-> 0,
             wasInStore |-> FALSE, page |-> FALSE, hasCachedData |-> FALSE,
             result |-> "none", data |-> Null, error |-> "none",
             fetches |-> 0, waits |-> <<>>,
             sets |-> 0, preloads |-> 0, muts |-> 0, abortPc |-> "none",
             fetchesAtAbort |-> 0, mutsAtAbort |-> 0]

\* No call settled in the last step.
NoSettled == [id |-> 0, l |-> IdleLoad]

\* No Store call under failing storage yet.
NoCall == [op |-> "none", arg |-> NoRoute, threw |-> FALSE, ok |-> FALSE,
           value |-> Null, failing |-> FALSE]

\* localStorage: the settings namespace of the Store and a key of other
\* durable data, as <<prefix, name>>.
SettingPrefix == "spa-setting-"

SettingNames == {"theme", "volume"}

DurableKeys == {<<SettingPrefix, k>> : k \in SettingNames}
                   \cup {<<"auth-", "theme">>}

\* No preload call in this slot yet.
NoElement == [type |-> "none", src |-> 0, promise |-> "none"]

\* No preloadFromData call yet.
NoDataCall == [wanted |-> <<>>, known |-> {}, batches |-> <<>>]

\* No result yet.
NoResult == [none |-> TRUE]

\* No payload handed over.
NoData == [none |-> TRUE]

\* No function applied yet.
PureNew ==
    /\ mediaData = NoData
    /\ extracted = NoResult
    /\ validatorErrors = <<>>
    /\ validated = NoResult
    /\ validations = 0

\* The callbacks subscribed to the event.
Callbacks == 1..MaxCallbacks

\* No emit yet.
NoEmit == [subscribed |-> <<>>, log |-> <<>>, done |-> FALSE]

\* new EventBus()
EventBusNew ==
    /\ listeners = <<>>
    /\ behaviour = [cb \in Callbacks |-> "returns"]
    /\ lastEmit = NoEmit
    /\ onceCalls = [w \in 1..MaxSubscriptions |-> 0]
    /\ subscriptions = 0
    /\ emits = 0

\* innerHTML of an element without content.
Blank == 0

\* The elements outside the modal that open hides from screen readers.
Outside == {"main-content", "nav"}

\* No call on the modal yet.
NoModalOp ==
    [op |-> "none", prev |-> "none", shown |-> Blank, stack |-> <<>>,
     pushedOver |-> Blank, aria |-> [e \in Outside |-> "null"],
     reopened |-> FALSE, returned |-> FALSE]

\* new Modal()
ModalNew ==
    /\ modalContent = Blank
    /\ contentStack = <<>>
    /\ active = FALSE
    /\ ariaHidden = [e \in Outside |-> "null"]
    /\ elementsToHide = <<"main-content", "nav">>
    /\ hiddenElements = <<>>
    /\ focusTrapHandler = 0
    /\ keyboardHandler = 0
    /\ keydown = {[kind |-> "escape", id |-> 0]}
    /\ nextHandler = 1
    /\ modalLog = NoModalOp

\* No call on the carousel yet.
NoCarouselOp == [op |-> "none", target |-> 0, before |-> 0]

\* new Carousel(container) over one item with the default options
CarouselNew ==
    /\ currentIndex = 0
    /\ totalItems = 1
    /\ itemsPerView = 1
    /\ loop = TRUE
    /\ carouselLog = NoCarouselOp

\* new VirtualizedGrid(container, [], options): init returns at once.
GridNew ==
    /\ generation = 1
    /\ itemCount = 0
    /\ placeholderContent = [i \in 1..MaxGridItems |-> 0]
    /\ observed = {}
    /\ intersecting = {}
    /\ renderedItems = {}
    /\ isRendering = FALSE
    /\ frames = <<>>
    /\ reported = {}
    /\ renders = [i \in 1..MaxGridItems |-> 0]

\* Nothing applied yet, every component as constructed.
WidgetsNew ==
    /\ PureNew
    /\ EventBusNew
    /\ ModalNew
    /\ CarouselNew
    /\ GridNew

\* new Preloader()
PreloaderNew ==
    /\ loadedImages = <<>>
    /\ loadedVideos = <<>>
    /\ elements = [id \in 1..MaxPreloads |-> NoElement]
    /\ nextEl = 1
    /\ queue = <<>>
    /\ dataCall = NoDataCall

\* What sessionStorage can hold when the page is opened: strings written by
\* an earlier Store of the same tab, within the byte budget.
RECURSIVE SumSizes(_, _)
SumSizes(ss, k) ==
    IF k > Len(RouteOrder) THEN 0
    ELSE (IF ss[RouteOrder[k]] = NoItem THEN 0 ELSE BlobSize(ss[RouteOrder[k]]))
         + SumSizes(ss, k + 1)

InitialStorages ==
    {ss \in [Routes -> {NoItem} \cup {Stringify(p) : p \in Payloads}] :
        SumSizes(ss, 1) <= maxSize}

\* The state after new Store() ... new Application(): nothing loaded yet.
Init ==
    /\ now = 1
    /\ \E ss \in InitialStorages :
         LET S == StoreNew(ss, 1)
         IN  /\ state = S.state
             /\ lastUsed = S.lastUsed
             /\ lastLoadTime = S.lastLoadTime
             /\ currentSize = S.currentSize
             /\ transientStore = S.transientStore
    /\ lastOp = NoOp
    /\ ops = 0
    /\ loads = [id \in 1..MaxLoads |-> IdleLoad]
    /\ aborted = [id \in 1..MaxLoads |-> FALSE]
    /\ nextId = 1
    /\ routerUp = TRUE
    /\ abortController = 0
    /\ currentRoute = NoRoute
    /\ currentLoadingRoute = NoRoute
    /\ content = Empty
    /\ rafHides = {}
    /\ lastNet = NoNet
    /\ settled = NoSettled
    /\ persistentStore = [k \in DurableKeys |-> NoItem]
    /\ present = [session |-> TRUE, local |-> TRUE]
    /\ lastCall = NoCall
    /\ PreloaderNew
    /\ WidgetsNew

\* Assign the Store object S to the variables.
StoreBecomes(S) ==
    /\ state' = S.state
    /\ lastUsed' = S.lastUsed
    /\ lastLoadTime' = S.lastLoadTime
    /\ currentSize' = S.currentSize
    /\ transientStore' = S.transientStore

\* The clock advances between tasks.
Tick ==
    /\ now < MaxTime
    /\ now' = now + 1
    /\ settled' = NoSettled
    /\ UNCHANGED <<storeVars, lastOp, ops, loads, aborted, nextId, lastNet,
                   navVars, domVars>>
    /\ UNCHANGED auxVars

\* ----------------------------------------- Store operations called directly
Set(route, data, w1, w2) ==
    LET r == StoreSet(St, route, data, w1, w2, now)
    IN  /\ StoreBecomes(r.s)
        /\ lastOp' = [NoOp EXCEPT !.op = "set", !.route = route]
        /\ ops < MaxOps
        /\ ops' = ops + 1
    /\ UNCHANGED <<now, loadVars, navVars, domVars>>
    /\ UNCHANGED auxVars

Get(route) ==
    LET r == StoreGet(St, route, now)
    IN  /\ StoreBecomes(r.s)
        /\ lastOp' = [NoOp EXCEPT !.op = "get", !.route = route,
                                  !.found = r.result # Null]
        /\ ops < MaxOps
        /\ ops' = ops + 1
    /\ UNCHANGED <<now, loadVars, navVars, domVars>>
    /\ UNCHANGED auxVars

Has(route) ==
    LET r == StoreHas(St, route, now)
    IN  /\ StoreBecomes(r.s)
        /\ lastOp' = [NoOp EXCEPT !.op = "has", !.route = route,
                                  !.found = r.result,
                                  !.removed = (r.s.state[route] # state[route])]
        /\ ops < MaxOps
        /\ ops' = ops + 1
    /\ UNCHANGED <<now, loadVars, navVars, domVars>>
    /\ UNCHANGED auxVars

Clear(route) ==
    /\ StoreBecomes(StoreClear(St, route))
    /\ lastOp' = [NoOp EXCEPT !.op = "clear", !.route = route]
    /\ ops < MaxOps
    /\ ops' = ops + 1
    /\ UNCHANGED <<now, loadVars, navVars, domVars>>
    /\ UNCHANGED auxVars

ClearAll ==
    /\ StoreBecomes(StoreClearAll(St))
    /\ lastOp' = [NoOp EXCEPT !.op = "clearAll"]
    /\ ops < MaxOps
    /\ ops' = ops + 1
    /\ UNCHANGED <<now, loadVars, navVars, domVars>>
    /\ UNCHANGED auxVars

\* The two setItem results that matter: the second one is only looked at
\* after a quota error of the first.
WriteOutcomes == {<<"ok", "ok">>, <<"other", "ok">>, <<"quota", "ok">>,
                  <<"quota", "quota">>}

NextStore ==
    \/ \E route \in Routes, data \in Payloads, w \in WriteOutcomes :
          Set(route, data, w[1], w[2])
    \/ \E route \in Routes : Get(route)
    \/ \E route \in Routes : Has(route)
    \/ \E route \in Routes : Clear(route)
    \/ ClearAll
    \/ Tick

SpecStore == Init /\ [][NextStore]_vars

\* ------------------------------------------------------ LoaderAnimation
\* The part of the document the handlers touch, as one value.
Dom == [content |-> content, rafHides |-> rafHides]

\* LoaderAnimation.show(container): innerHTML becomes a new loader element
\* (by: the load that showed it).
LoaderShow(D, id) ==
    [D EXCEPT !.content = [Empty EXCEPT !.kind = "loader", !.by = id]]

\* LoaderAnimation.hide(container): the loader found in the container fades
\* and its transitionend (or the fallback timer) will remove that element.
\* A faded loader is one with a removal pending; the removal of an element
\* that has left the container changes nothing and is not tracked.
LoaderHide(D) ==
    IF D.content.kind = "loader"
    THEN [D EXCEPT !.content.faded = TRUE]
    ELSE D

\* ------------------------------------------------------------- DataLoader
\* signal && signal.aborted
SigAborted(signal, ab) == signal # 0 /\ ab[signal]

\* A caller that keeps its signal to itself.
PassSignalDropped(signal) == 0

\* The signal loadJSON hands to _loadJSON (and _loadJSON to fetch).
PassSignal(signal) == signal

\* error && error.name === 'AbortError'
IsAbortError(e) == e = "AbortError"

\* A backoff that does not grow.
RetryDelayFlat(i) == RetryBaseDelay

\* const delay = 1000 * (i + 1)
RetryDelay(i) == RetryBaseDelay * (i + 1)

\* Page.render() / Page.renderError(): setContent replaces main-content.
Rendered(D, id, route, data) ==
    [D EXCEPT !.content = [Empty EXCEPT !.kind = "page", !.by = id,
                                        !.route = route, !.data = data]]

RenderedError(D, id, route) ==
    [D EXCEPT !.content = [Empty EXCEPT !.kind = "error", !.by = id,
                                        !.route = route]]

\* Application.loadPage after `await page.load(...)`.
LoadPageAfter(X, ab) ==
    IF X.clr # X.l.route \/ SigAborted(X.l.signal, ab)
    THEN X
    ELSE [X EXCEPT !.d.rafHides = IF X.l.hasCachedData THEN @
                                  ELSE @ \cup {X.id},
                   !.clr = NoRoute]

\* A catch block that treats a cancellation like any other error.
PageSwallowsNothing(e) == FALSE

\* The catch block of Page.load
PageSwallows(e) == IsAbortError(e)

\* Page.load after `await this.loadData(...)` has settled, then the rest of
\* Application.loadPage; w is the setItem results of Page.load's store.set.
PageLoadSettled(X, ab, w, t) ==
    IF X.l.result \in {"data", "cached"}
    THEN IF SigAborted(X.l.signal, ab)
         THEN LoadPageAfter(X, ab)
         ELSE LET r == StoreSet(X.s, X.l.route, X.l.data, w[1], w[2], t)
              IN  LoadPageAfter(
                      [X EXCEPT !.s = r.s,
                                !.d = Rendered(X.d, X.id, X.l.route, X.l.data)],
                      ab)
    ELSE IF PageSwallows(X.l.error)
         THEN LoadPageAfter(X, ab)
         ELSE LoadPageAfter([X EXCEPT !.d = RenderedError(X.d, X.id, X.l.route)],
                            ab)

\* loadJSON settles (returns or throws); a call made by Page.load continues
\* in Page.load and Application.loadPage within the same task.
Finish(X, result, data, e, ab, w, t) ==
    LET Y == [X EXCEPT !.l.pc = "done", !.l.result = result, !.l.data = data,
                       !.l.error = e]
    IN  IF Y.l.page THEN PageLoadSettled(Y, ab, w, t) ELSE Y

\* The catch block of loadJSON's retry loop, for the error e of attempt i.
RetryOrThrow(X, e, ab, w, t) ==
    IF IsAbortError(e)
    THEN Finish(X, "abort", Null, e, ab, w, t)
    ELSE IF X.l.i = X.l.retries - 1
         THEN Finish(X, "error", Null, e, ab, w, t)
         ELSE IF SigAborted(X.l.signal, ab)
              THEN Finish(X, "abort", Null, "AbortError", ab, w, t)
              ELSE [X EXCEPT !.l.pc = "delay",
                             !.l.waits = Append(@, RetryDelay(X.l.i))]

\* The catch block of _loadJSON (hide the loader, rethrow), then loadJSON's.
AttemptFailed(X, e, ab, w, t) ==
    RetryOrThrow([X EXCEPT !.d = IF X.l.showLoader THEN LoaderHide(X.d) ELSE @],
                 e, ab, w, t)

\* _loadJSON up to `await fetch(...)`.
BeginAttempt(X, ab, w, t) ==
    LET Y == [X EXCEPT !.d = IF X.l.showLoader THEN LoaderShow(X.d, X.id) ELSE @]
    IN  IF SigAborted(PassSignal(Y.l.signal), ab)
        THEN AttemptFailed(Y, "AbortError", ab, w, t)
        ELSE [Y EXCEPT !.l.pc = "fetch", !.l.fetches = @ + 1]

\* 1 if the Store operation changed the Store, else 0.
Changed(S1, S2) == IF S1 = S2 THEN 0 ELSE 1

\* loadJSON up to its first await.
LoadJSONStart(X, ab, w, t) ==
    IF SigAborted(X.l.signal, ab)
    THEN Finish(X, "abort", Null, "AbortError", ab, w, t)
    ELSE LET force == X.l.forceReload
             h1 == StoreHas(X.s, X.l.route, t)
             wasInStore == ~force /\ h1.result
             S1 == IF force THEN X.s ELSE h1.s
             h2 == StoreHas(S1, X.l.route, t)
             hit == ~force /\ h2.result
             g == StoreGet(h2.s, X.l.route, t)
             S2 == IF force THEN S1 ELSE IF hit THEN g.s ELSE h2.s
             S3 == IF force THEN StoreClear(S2, X.l.route) ELSE S2
             Y == [X EXCEPT !.l.wasInStore = wasInStore]
         IN  IF hit /\ g.result # Null
             THEN Finish([Y EXCEPT !.s = S2, !.l.muts = @ + Changed(X.s, S2)],
                         "cached", g.result, "none", ab, w, t)
             ELSE BeginAttempt([Y EXCEPT !.s = S3,
                                         !.l.muts = @ + Changed(X.s, S3)],
                               ab, w, t)

\* A loader that never hands its payload to the Preloader.
PreloadsMediaNever(wasInStore) == FALSE

\* The test in front of preloader.preloadFromData(validatedData)
PreloadsMedia(wasInStore) == ~wasInStore

\* _loadJSON after `await response.json()` gave data that validates.
AttemptSucceeded(X, data, ab, w1, w2, t) ==
    IF SigAborted(PassSignal(X.l.signal), ab)
    THEN AttemptFailed(X, "AbortError", ab, w2, t)
    ELSE LET r == StoreSet(X.s, X.l.route, data, w1[1], w1[2], t)
             Y == [X EXCEPT !.s = r.s,
                            !.l.sets = @ + 1,
                            !.l.muts = @ + 1,
                            !.l.preloads = IF PreloadsMedia(X.l.wasInStore)
                                           THEN @ + 1 ELSE @,
                            !.d = IF X.l.showLoader THEN LoaderHide(X.d) ELSE @,
                            !.net = [route |-> X.l.route, data |-> data, t |-> t]]
         IN  Finish(Y, "data", data, "none", ab, w2, t)

\* Application.loadPage(route, signal) up to its first await: the page comes
\* from the Store, or Page.load starts loadJSON through its typed wrapper.
LoadPageStart(X, ab, w, t) ==
    IF SigAborted(X.l.signal, ab)
    THEN [X EXCEPT !.l.pc = "done", !.l.result = "skipped"]
    ELSE LET h == StoreHas(X.s, X.l.route, t)
             Y == [X EXCEPT !.clr = X.l.route,
                            !.s = h.s,
                            !.l.hasCachedData = h.result,
                            !.l.showLoader = ~h.result,
                            !.d = IF h.result THEN @ ELSE LoaderShow(@, X.id)]
             h2 == StoreHas(Y.s, Y.l.route, t)
             g == StoreGet(h2.s, Y.l.route, t)
         IN  IF h2.result
             THEN LoadPageAfter(
                      [Y EXCEPT !.s = g.s,
                                !.l.pc = "done", !.l.result = "cached",
                                !.l.data = g.result,
                                !.d = Rendered(Y.d, Y.id, Y.l.route, g.result)],
                      ab)
             ELSE LoadJSONStart([Y EXCEPT !.s = h2.s], ab, w, t)


\* ------------------------------------------------ loader and page actions
\* The state a handler of call id works on, as one value.
Ctx(id, l) == [id |-> id, l |-> l, s |-> St, d |-> Dom,
               clr |-> currentLoadingRoute, net |-> lastNet]

\* Assign the outcome X of a handler to the variables.  A call that has
\* settled leaves the table of pending calls and is remembered, for one
\* step, in settled.  lastNet is forgotten as soon as anything else changes
\* the Store.
Becomes(X, ls) ==
    /\ StoreBecomes(X.s)
    /\ loads' = [ls EXCEPT ![X.id] = IF X.l.pc = "done" THEN IdleLoad ELSE X.l]
    /\ settled' = IF X.l.pc = "done" THEN [id |-> X.id, l |-> X.l]
                  ELSE NoSettled
    /\ content' = X.d.content
    /\ rafHides' = X.d.rafHides
    /\ currentLoadingRoute' = X.clr
    /\ lastNet' = IF X.net # lastNet THEN X.net
                  ELSE IF X.s # St THEN NoNet ELSE lastNet

\* History: what the pending call id had done when its signal was aborted.
MarkAborted(ls, id) ==
    IF id = 0 \/ aborted[id] \/ ls[id].pc = "idle" THEN ls
    ELSE [ls EXCEPT ![id].abortPc = ls[id].pc,
                    ![id].fetchesAtAbort = ls[id].fetches,
                    ![id].mutsAtAbort = ls[id].muts]

NoWrite == <<"ok", "ok">>

\* The forceReload a typed wrapper (loadMain, loadCollections, ...) hands to
\* loadJSON when its caller asks for forceReload.
WrapperForce(route, forceReload) == route = "collections" /\ forceReload

\* A caller calls dataLoader.loadJSON(path, showLoader, forceReload, signal,
\* retries), directly or through loadMain() and the other typed wrappers,
\* with the signal of its own AbortController, and awaits it before it
\* calls again.
CallLoadJSON(route, showLoader, forceReload, retries) ==
    /\ nextId <= MaxLoads
    /\ \A id \in 1..MaxLoads : loads[id].pc = "idle"
    /\ LET l == [IdleLoad EXCEPT !.route = route, !.signal = nextId,
                                 !.showLoader = showLoader,
                                 !.forceReload = forceReload,
                                 !.retries = retries]
       IN  Becomes(LoadJSONStart(Ctx(nextId, l), aborted, NoWrite, now), loads)
    /\ nextId' = nextId + 1
    /\ UNCHANGED <<now, lastOp, ops, aborted, routerUp, abortController,
                   currentRoute>>
    /\ UNCHANGED auxVars

\* The caller aborts its controller while the call is pending.
Abort(id) ==
    /\ id < nextId
    /\ ~aborted[id]
    /\ loads[id].pc \in {"fetch", "json", "delay"}
    /\ aborted' = [aborted EXCEPT ![id] = TRUE]
    /\ loads' = MarkAborted(loads, id)
    /\ settled' = NoSettled
    /\ UNCHANGED <<storeVars, now, lastOp, ops, nextId, lastNet, navVars,
                   domVars>>
    /\ UNCHANGED auxVars

\* What fetch(url, {signal}) settles with.
FetchOutcomes(signal, ab) ==
    IF SigAborted(signal, ab) THEN {"AbortError"}
    ELSE {"ok", "http", "contentType"}

\* `await fetch(...)` settles: a response, or a rejection.
FetchSettle(id, out) ==
    /\ loads[id].pc = "fetch"
    /\ out \in FetchOutcomes(PassSignal(loads[id].signal), aborted)
    /\ Becomes(IF out = "ok"
               THEN [Ctx(id, loads[id]) EXCEPT !.l.pc = "json"]
               ELSE AttemptFailed(Ctx(id, loads[id]), out, aborted, NoWrite,
                                  now),
               loads)
    /\ UNCHANGED <<now, lastOp, ops, aborted, nextId, routerUp,
                   abortController, currentRoute>>
    /\ UNCHANGED auxVars

\* What response.json() and the validator give: a validated payload, a
\* parse error, or null from the validator.
JsonOutcomes(signal, ab) ==
    IF SigAborted(signal, ab) THEN {"AbortError"}
    ELSE {"data", "parse", "validation"}

\* `await response.json()` settles; w1 and w2 are the setItem results of
\* the store.set of _loadJSON and of Page.load.
JsonSettle(id, out, data, w1, w2) ==
    /\ loads[id].pc = "json"
    /\ out \in JsonOutcomes(PassSignal(loads[id].signal), aborted)
    /\ out # "data" => data = 1 /\ w1 = NoWrite
    /\ (out # "data" \/ ~loads[id].page) => w2 = NoWrite
    /\ Becomes(IF out = "data"
               THEN AttemptSucceeded(Ctx(id, loads[id]), data, aborted, w1, w2,
                                     now)
               ELSE AttemptFailed(Ctx(id, loads[id]), out, aborted, w2, now),
               loads)
    /\ UNCHANGED <<now, lastOp, ops, aborted, nextId, routerUp,
                   abortController, currentRoute>>
    /\ UNCHANGED auxVars

\* The backoff timer of loadJSON fires.
DelayElapsed(id) ==
    /\ loads[id].pc = "delay"
    /\ LET X == Ctx(id, loads[id])
       IN  Becomes(IF SigAborted(X.l.signal, aborted)
                   THEN Finish(X, "abort", Null, "AbortError", aborted,
                               NoWrite, now)
                   ELSE BeginAttempt([X EXCEPT !.l.i = @ + 1], aborted,
                                     NoWrite, now),
                   loads)
    /\ UNCHANGED <<now, lastOp, ops, aborted, nextId, routerUp,
                   abortController, currentRoute>>
    /\ UNCHANGED auxVars

\* The transitionend (or fallback timer) of LoaderAnimation.hide removes the
\* faded loader from main-content.
HideTimerFire ==
    /\ content.kind = "loader"
    /\ content.faded
    /\ content' = Empty
    /\ settled' = NoSettled
    /\ UNCHANGED <<storeVars, now, lastOp, ops, loads, aborted, nextId, lastNet,
                   navVars, rafHides>>
    /\ UNCHANGED auxVars

NextLoader ==
    \/ \E route \in Routes, showLoader \in BOOLEAN, forceReload \in BOOLEAN,
          retries \in 1..MaxRetries :
          CallLoadJSON(route, showLoader, forceReload, retries)
    \/ \E id \in 1..MaxLoads : Abort(id)
    \/ \E id \in 1..MaxLoads, out \in {"ok", "http", "contentType", "AbortError"} :
          FetchSettle(id, out)
    \/ \E id \in 1..MaxLoads, out \in {"data", "parse", "validation", "AbortError"},
          data \in Payloads, w1 \in WriteOutcomes :
          JsonSettle(id, out, data, w1, NoWrite)
    \/ \E id \in 1..MaxLoads : DelayElapsed(id)
    \/ HideTimerFire
    \/ Tick

SpecLoader == Init /\ [][NextLoader]_vars

\* ------------------------------------------------------------ navigation
\* A navigation that leaves the previous controller alone.
AbortPreviousSkipped(ab, ctrl) == ab

\* if (this.abortController) this.abortController.abort()
AbortPrevious(ab, ctrl) == IF ctrl # 0 THEN [ab EXCEPT ![ctrl] = TRUE] ELSE ab

\* window.location.hash as the sequence of its parts: "#", "/" and names.
\* The hashes a user can type or a link can carry: none, the known routes,
\* a route in another case, a name every object inherits, an unknown name,
\* a missing name, a missing slash and a trailing slash.
Hashes ==
    {<<>>, <<"#", "/">>, <<"#", "collections">>,
     <<"#", "/", "collections", "/">>}
        \cup {<<"#", "/", n>> : n \in Routes \cup {"Main", "constructor", "gallery"}}

\* The names every plain object answers to through Object.prototype.
Inherited == {"constructor"}

\* A replace that strips nothing.
StripNothing(hash) == hash

\* hash.replace(/^#\//, '')
StripHashSlash(hash) ==
    IF Len(hash) >= 2 /\ hash[1] = "#" /\ hash[2] = "/"
    THEN SubSeq(hash, 3, Len(hash)) ELSE hash

\* this.routes[hash] || hash: the route of an own path, the inherited
\* function (whose text is no key of anything) for an inherited name, else
\* the hash itself.
RouteOrHash(hash) ==
    IF Len(hash) = 1 /\ hash[1] \in Routes THEN hash
    ELSE IF Len(hash) = 1 /\ hash[1] \in Inherited THEN <<"function", hash[1]>>
    ELSE hash

\* routesConfig[route] is truthy.
InRoutesConfig(route) ==
    Len(route) = 1 /\ route[1] \in Routes \cup Inherited

\* validRoute of Router.handleRoute
ValidRoute(location) ==
    LET stripped == StripHashSlash(location)
        hash == IF stripped = <<>> THEN <<"main">> ELSE stripped
        route == RouteOrHash(hash)
    IN  IF InRoutesConfig(route) THEN route[1] ELSE "main"

\* Router.handleRoute for a hash that names route: a route change calls
\* Router.navigate, which runs Application.loadPage to its first await.
HandleRoute(location) ==
    /\ routerUp
    /\ ValidRoute(location) # currentRoute
    /\ nextId <= MaxLoads
    /\ LET ab == AbortPrevious(aborted, abortController)
           route == ValidRoute(location)
           l == [IdleLoad EXCEPT !.route = route, !.signal = nextId,
                                 !.page = TRUE, !.retries = DefaultRetries]
       IN  /\ aborted' = ab
           /\ Becomes(LoadPageStart(Ctx(nextId, l), ab, NoWrite, now),
                      MarkAborted(loads, abortController))
    /\ currentRoute' = ValidRoute(location)
    /\ abortController' = nextId
    /\ nextId' = nextId + 1
    /\ UNCHANGED <<now, lastOp, ops, routerUp>>
    /\ UNCHANGED auxVars

\* Router.cleanup()
RouterCleanup ==
    /\ routerUp
    /\ routerUp' = FALSE
    /\ aborted' = AbortPrevious(aborted, abortController)
    /\ loads' = MarkAborted(loads, abortController)
    /\ abortController' = 0
    /\ settled' = NoSettled
    /\ UNCHANGED <<storeVars, now, lastOp, ops, nextId, lastNet, currentRoute,
                   currentLoadingRoute, domVars>>
    /\ UNCHANGED auxVars

\* The second requestAnimationFrame callback of Application.loadPage runs
\* hideLoader(mainContent) for the load id.
RafHide(id) ==
    /\ id \in rafHides
    /\ LET D == LoaderHide([Dom EXCEPT !.rafHides = @ \ {id}])
       IN  /\ content' = D.content
           /\ rafHides' = D.rafHides
    /\ settled' = NoSettled
    /\ UNCHANGED <<storeVars, now, lastOp, ops, loads, aborted, nextId, lastNet,
                   navVars>>
    /\ UNCHANGED auxVars

NextNav ==
    \/ \E location \in Hashes : HandleRoute(location)
    \/ RouterCleanup
    \/ \E id \in 1..MaxLoads, out \in {"ok", "http", "contentType", "AbortError"} :
          FetchSettle(id, out)
    \/ \E id \in 1..MaxLoads, out \in {"data", "parse", "validation", "AbortError"},
          data \in Payloads, w1 \in WriteOutcomes, w2 \in WriteOutcomes :
          JsonSettle(id, out, data, w1, w2)
    \/ \E id \in 1..MaxLoads : DelayElapsed(id)
    \/ \E id \in 1..MaxLoads : RafHide(id)
    \/ HideTimerFire
    \/ Tick

SpecNav == Init /\ [][NextNav]_vars

\* ------------------------------------------- Store under failing storage
\* The places where a Store method touches a storage object.
CacheSites == {"get.getItem", "get.parse", "set.getItem", "set.setItem",
               "set.retry", "evict.getItem", "evict.removeItem",
               "has.getItem", "clear.getItem", "clear.removeItem"}

SettingSites == {"getSetting.getItem", "getSetting.parse",
                 "setSetting.setItem", "removeSetting.removeItem",
                 "clearSettings.scan", "clearSettings.removeItem"}

\* The site is inside a try block whose catch does not rethrow.
Guarded(site) == site \in CacheSites \cup SettingSites

\* The site is only reached after a test that the storage object is there.
NullChecked(site) == site \in CacheSites \cup SettingSites

\* An exception is raised at the site: the storage object is missing and
\* was not tested for, or the access itself fails.
Raised(site, up, fails) == IF up THEN fails ELSE ~NullChecked(site)

\* The exception leaves the method.
Escapes(site, up, fails) == Raised(site, up, fails) /\ ~Guarded(site)

\* The method throws: fails maps each site it can reach to whether the
\* access fails there.
Threw(up, fails) == \E site \in DOMAIN fails : Escapes(site, up, fails[site])

\* What a method sees of sessionStorage when the object is missing or its
\* reads throw: no item anywhere, and nothing it removes goes away.
Blind(S) == [S EXCEPT !.transientStore = [r \in Routes |-> NoItem]]

Unblind(S2, S) == [S2 EXCEPT !.transientStore = S.transientStore]

\* Run the Store method m (an operator over the Store object returning a
\* record with field s) with sessionStorage readable or not.
Readable(up, rd) == up /\ rd = "ok"

ReadOutcomes == {"ok", "throws"}

\* The setItem results possible for the storage: a missing object is never
\* written (the memory state is kept, as after an unrecognised exception),
\* an object whose reads throw rejects writes too.
WritesUnder(up, rd) ==
    IF ~up THEN {<<"other", "ok">>}
    ELSE IF rd = "throws" THEN {<<"other", "ok">>, <<"quota", "quota">>}
    ELSE WriteOutcomes

\* The storage misbehaves during the call.
Failing(up, rd, w) == ~up \/ rd = "throws" \/ w[1] # "ok"

\* The default handed to getSetting.
DefaultValue == Null

\* The keys getSetting, setSetting and removeSetting are called with; the
\* empty string is rejected by their first test.
SettingKeys == SettingNames \cup {""}

ValidKey(key) == key # ""

\* Store.getSetting(key, defaultValue)
StoreGetSetting(P, key, up, rd) ==
    IF ~up \/ ~ValidKey(key) THEN DefaultValue
    ELSE IF rd = "throws" THEN DefaultValue
    ELSE LET value == P[<<SettingPrefix, key>>]
         IN  IF value = NoItem THEN DefaultValue
             ELSE IF Parses(value) THEN Parse(value)
             ELSE DefaultValue

\* Store.setSetting(key, value); w is the result of setItem.
StoreSetSetting(P, key, value, up, w) ==
    IF ~up \/ ~ValidKey(key) THEN [p |-> P, result |-> FALSE]
    ELSE IF w = "ok"
         THEN [p |-> [P EXCEPT ![<<SettingPrefix, key>>] = Stringify(value)],
               result |-> TRUE]
         ELSE [p |-> P, result |-> FALSE]

\* Store.removeSetting(key)
StoreRemoveSetting(P, key, up, rd) ==
    IF ~up \/ ~ValidKey(key) THEN [p |-> P, result |-> FALSE]
    ELSE IF rd = "ok"
         THEN [p |-> [P EXCEPT ![<<SettingPrefix, key>>] = NoItem],
               result |-> TRUE]
         ELSE [p |-> P, result |-> FALSE]

\* A scan that takes every key for a setting.
StartsWithAnything(k) == TRUE

\* key.startsWith('spa-setting-')
StartsWithPrefix(k) == k[1] = SettingPrefix

\* Store.clearSettings(): the scan over length / key(i) fails first when the
\* storage throws, so nothing has been removed by then.
StoreClearSettings(P, up, rd) ==
    IF ~up THEN [p |-> P, result |-> FALSE]
    ELSE IF rd = "ok"
         THEN [p |-> [k \in DOMAIN P |->
                         IF P[k] # NoItem /\ StartsWithPrefix(k)
                         THEN NoItem ELSE P[k]],
               result |-> TRUE]
         ELSE [p |-> P, result |-> FALSE]

\* What sessionStorage can hold when the page is opened, strings that do
\* not parse included.
StoragesWithCorrupt ==
    {ss \in [Routes -> {NoItem, Stringify(1), Corrupt}] :
        SumSizes(ss, 1) <= maxSize}

\* What localStorage can hold when the page is opened.
InitialDurable ==
    {ps \in [DurableKeys -> {NoItem, Stringify(1), Corrupt}] :
        /\ ps[<<"auth-", "theme">>] = Stringify(1)
        /\ ps[<<SettingPrefix, "volume">>] # Corrupt}

\* Nothing has been navigated to or loaded, no Store call made.
InitIdle ==
    /\ now = 1
    /\ lastCall = NoCall
    /\ lastOp = NoOp
    /\ ops = 0
    /\ loads = [id \in 1..MaxLoads |-> IdleLoad]
    /\ aborted = [id \in 1..MaxLoads |-> FALSE]
    /\ nextId = 1
    /\ routerUp = TRUE
    /\ abortController = 0
    /\ currentRoute = NoRoute
    /\ currentLoadingRoute = NoRoute
    /\ content = Empty
    /\ rafHides = {}
    /\ lastNet = NoNet
    /\ settled = NoSettled
    /\ PreloaderNew

\* The variables of the Store are those of new Store() over sessionStorage
\* ss, whose reads went as rd while loadFromSessionStorage ran.
Constructed(ss, rd) ==
    LET S == StoreNew(IF rd = "ok" THEN ss ELSE [r \in Routes |-> NoItem], 1)
    IN  /\ state = S.state
        /\ lastUsed = S.lastUsed
        /\ lastLoadTime = S.lastLoadTime
        /\ currentSize = S.currentSize
        /\ transientStore = ss

\* The state after new Store() in a browser where either storage object may
\* be missing and sessionStorage holds at most an entry of the first route.
InitSettings ==
    /\ InitIdle
    /\ WidgetsNew
    /\ present \in [session : BOOLEAN, local : BOOLEAN]
    /\ \E ss \in StoragesWithCorrupt, rd \in ReadOutcomes :
         /\ \A r \in Routes : r # RouteOrder[1] => ss[r] = NoItem
         /\ ~present.session => ss[RouteOrder[1]] = NoItem /\ rd = "ok"
         /\ Constructed(ss, rd)
    /\ persistentStore \in
         IF present.local THEN InitialDurable
         ELSE {[k \in DurableKeys |-> NoItem]}

\* What a Store call leaves alone besides the Store itself.
Elsewhere == <<now, loadVars, navVars, domVars, present, mediaVars, widgetVars>>

Counted ==
    /\ ops < MaxCalls
    /\ ops' = ops + 1

\* store.set(route, data) with sessionStorage in whatever condition
SetUnder(route, data, rd, w) ==
    LET up == present.session
        V == IF Readable(up, rd) THEN St ELSE Blind(St)
        r == StoreSet(V, route, data, w[1], w[2], now)
        fails == [site \in {"set.getItem", "evict.getItem", "evict.removeItem",
                            "set.setItem", "set.retry"} |->
                    CASE site = "set.setItem" -> w[1] # "ok"
                      [] site = "set.retry" -> w[1] = "quota" /\ w[2] # "ok"
                      [] OTHER -> rd = "throws"]
    IN  /\ w \in WritesUnder(up, rd)
        /\ StoreBecomes(IF Readable(up, rd) THEN r.s ELSE Unblind(r.s, St))
        /\ lastCall' = [NoCall EXCEPT !.op = "set", !.arg = route,
                                      !.threw = Threw(up, fails),
                                      !.value = data,
                                      !.failing = Failing(up, rd, w)]
        /\ lastOp' = [NoOp EXCEPT !.op = "set", !.route = route]
        /\ Counted
        /\ UNCHANGED <<Elsewhere, persistentStore>>

\* store.get(route)
GetUnder(route, rd) ==
    LET up == present.session
        V == IF Readable(up, rd) THEN St ELSE Blind(St)
        r == StoreGet(V, route, now)
        fails == [site \in {"get.getItem", "get.parse"} |->
                    IF site = "get.parse"
                    THEN state[route] = Null /\ V.transientStore[route] = Corrupt
                    ELSE rd = "throws"]
    IN  /\ StoreBecomes(IF Readable(up, rd) THEN r.s ELSE Unblind(r.s, St))
        /\ lastCall' = [NoCall EXCEPT !.op = "get", !.arg = route,
                                      !.threw = Threw(up, fails),
                                      !.ok = r.result # Null,
                                      !.value = r.result,
                                      !.failing = Failing(up, rd, NoWrite)]
        /\ lastOp' = [NoOp EXCEPT !.op = "get", !.route = route,
                                  !.found = r.result # Null]
        /\ Counted
        /\ UNCHANGED <<Elsewhere, persistentStore>>

\* store.has(route)
HasUnder(route, rd) ==
    LET up == present.session
        V == IF Readable(up, rd) THEN St ELSE Blind(St)
        r == StoreHas(V, route, now)
        fails == [site \in {"has.getItem", "clear.getItem", "clear.removeItem"}
                    |-> rd = "throws"]
    IN  /\ StoreBecomes(IF Readable(up, rd) THEN r.s ELSE Unblind(r.s, St))
        /\ lastCall' = [NoCall EXCEPT !.op = "has", !.arg = route,
                                      !.threw = Threw(up, fails),
                                      !.ok = r.result,
                                      !.failing = Failing(up, rd, NoWrite)]
        /\ lastOp' = [NoOp EXCEPT !.op = "has", !.route = route,
                                  !.found = r.result,
                                  !.removed = (r.s.state[route] # state[route])]
        /\ Counted
        /\ UNCHANGED <<Elsewhere, persistentStore>>

\* store.clear(route), and store.clear() when all is TRUE
ClearUnder(route, all, rd) ==
    LET up == present.session
        V == IF Readable(up, rd) THEN St ELSE Blind(St)
        S2 == IF all THEN StoreClearAll(V) ELSE StoreClear(V, route)
        fails == [site \in {"clear.getItem", "clear.removeItem"}
                    |-> rd = "throws"]
    IN  /\ all => route = RouteOrder[1]
        /\ StoreBecomes(IF Readable(up, rd) THEN S2 ELSE Unblind(S2, St))
        /\ lastCall' = [NoCall EXCEPT !.op = IF all THEN "clearAll" ELSE "clear",
                                      !.arg = IF all THEN NoRoute ELSE route,
                                      !.threw = Threw(up, fails),
                                      !.failing = Failing(up, rd, NoWrite)]
        /\ lastOp' = [NoOp EXCEPT !.op = IF all THEN "clearAll" ELSE "clear",
                                  !.route = IF all THEN NoRoute ELSE route]
        /\ Counted
        /\ UNCHANGED <<Elsewhere, persistentStore>>

\* store.getSetting(key, defaultValue)
GetSetting(key, rd) ==
    LET up == present.local
        value == StoreGetSetting(persistentStore, key, up, rd)
        fails == [site \in {"getSetting.getItem", "getSetting.parse"} |->
                    IF site = "getSetting.parse"
                    THEN ValidKey(key) /\ rd = "ok"
                         /\ persistentStore[<<SettingPrefix, key>>] = Corrupt
                    ELSE rd = "throws"]
    IN  /\ lastCall' = [NoCall EXCEPT !.op = "getSetting", !.arg = key,
                                      !.threw = Threw(up, fails),
                                      !.ok = value # DefaultValue,
                                      !.value = value,
                                      !.failing = Failing(up, rd, NoWrite)]
        /\ Counted
        /\ UNCHANGED <<Elsewhere, storeVars, lastOp, persistentStore>>

\* store.setSetting(key, value)
SetSetting(key, value, w) ==
    LET up == present.local
        r == StoreSetSetting(persistentStore, key, value, up, w)
        fails == [site \in {"setSetting.setItem"} |-> w # "ok"]
    IN  /\ persistentStore' = r.p
        /\ lastCall' = [NoCall EXCEPT !.op = "setSetting", !.arg = key,
                                      !.threw = Threw(up, fails),
                                      !.ok = r.result,
                                      !.value = value,
                                      !.failing = Failing(up, "ok", <<w, w>>)]
        /\ Counted
        /\ UNCHANGED <<Elsewhere, storeVars, lastOp>>

\* store.removeSetting(key)
RemoveSetting(key, rd) ==
    LET up == present.local
        r == StoreRemoveSetting(persistentStore, key, up, rd)
        fails == [site \in {"removeSetting.removeItem"} |-> rd = "throws"]
    IN  /\ persistentStore' = r.p
        /\ lastCall' = [NoCall EXCEPT !.op = "removeSetting", !.arg = key,
                                      !.threw = Threw(up, fails),
                                      !.ok = r.result,
                                      !.failing = Failing(up, rd, NoWrite)]
        /\ Counted
        /\ UNCHANGED <<Elsewhere, storeVars, lastOp>>

\* store.clearSettings()
ClearSettings(rd) ==
    LET up == present.local
        r == StoreClearSettings(persistentStore, up, rd)
        fails == [site \in {"clearSettings.scan", "clearSettings.removeItem"}
                    |-> rd = "throws"]
    IN  /\ persistentStore' = r.p
        /\ lastCall' = [NoCall EXCEPT !.op = "clearSettings",
                                      !.threw = Threw(up, fails),
                                      !.ok = r.result,
                                      !.failing = Failing(up, rd, NoWrite)]
        /\ Counted
        /\ UNCHANGED <<Elsewhere, storeVars, lastOp>>

\* Time passes between two Store calls.
Later ==
    /\ now < MaxTime
    /\ now' = now + 1
    /\ UNCHANGED <<storeVars, lastOp, ops, loadVars, navVars, domVars, envVars,
                   mediaVars, widgetVars>>

\* The settings accessors next to the cache methods: entries are set for two
\* routes, read and cleared for the first.
NextSettings ==
    \/ \E route \in {RouteOrder[1], RouteOrder[2]}, data \in Payloads,
          rd \in ReadOutcomes, w \in WriteOutcomes :
          SetUnder(route, data, rd, w)
    \/ \E rd \in ReadOutcomes : GetUnder(RouteOrder[1], rd)
    \/ \E rd \in ReadOutcomes : HasUnder(RouteOrder[1], rd)
    \/ \E all \in BOOLEAN, rd \in ReadOutcomes :
          ClearUnder(RouteOrder[1], all, rd)
    \/ \E key \in SettingKeys, rd \in ReadOutcomes : GetSetting(key, rd)
    \/ \E key \in SettingKeys, value \in Payloads,
          w \in {"ok", "quota", "other"} : SetSetting(key, value, w)
    \/ \E key \in SettingKeys, rd \in ReadOutcomes : RemoveSetting(key, rd)
    \/ \E rd \in ReadOutcomes : ClearSettings(rd)
    \/ Later

SpecSettings == InitSettings /\ [][NextSettings]_vars

\* -------------------------------------------------------------- Preloader
Urls == 1..MaxUrls

\* A Map is the sequence of its entries in insertion order.
MapHas(cache, url) == \E i \in 1..Len(cache) : cache[i].url = url

\* cache.set(url, timestamp): a key already there keeps its place.
MapSet(cache, url, timestamp) ==
    IF MapHas(cache, url)
    THEN [i \in 1..Len(cache) |->
            IF cache[i].url = url THEN [url |-> url, timestamp |-> timestamp]
            ELSE cache[i]]
    ELSE Append(cache, [url |-> url, timestamp |-> timestamp])

\* Math.ceil(this.maxCacheSize * 0.2)
EntriesToRemove == (maxCacheSize + 4) \div 5

\* The place of entry i after entries.sort((a, b) => a.timestamp -
\* b.timestamp), a stable sort: the number of entries in front of it.
SortedBefore(cache, i) ==
    Cardinality({j \in 1..Len(cache) :
                    \/ cache[j].timestamp < cache[i].timestamp
                    \/ cache[j].timestamp = cache[i].timestamp /\ j < i})

RECURSIVE DeleteOldest(_, _, _)
\* The for loop of cleanupOldEntries over the sorted entries, as a filter
\* of the Map from entry i on.
DeleteOldest(cache, i, n) ==
    IF i > Len(cache) THEN <<>>
    ELSE IF SortedBefore(cache, i) < n
         THEN DeleteOldest(cache, i + 1, n)
         ELSE <<cache[i]>> \o DeleteOldest(cache, i + 1, n)

\* Preloader.cleanupOldEntries(cache)
CleanupOldEntries(cache) ==
    IF Len(cache) < maxCacheSize THEN cache
    ELSE DeleteOldest(cache, 1, EntriesToRemove)

\* if (cache.size >= this.maxCacheSize) this.cleanupOldEntries(cache)
CleanupIfFull(cache) ==
    IF Len(cache) >= maxCacheSize THEN CleanupOldEntries(cache) ELSE cache

\* img.onerror / video.onerror: resolve()
OnError(promise) == "resolved"

\* The Preloader object as one value.
Pre == [loadedImages |-> loadedImages, loadedVideos |-> loadedVideos,
        elements |-> elements, nextEl |-> nextEl]

\* The Map of a media type.
CacheOf(P, type) == IF type = "image" THEN P.loadedImages ELSE P.loadedVideos

WithCache(P, type, cache) ==
    IF type = "image" THEN [P EXCEPT !.loadedImages = cache]
    ELSE [P EXCEPT !.loadedVideos = cache]

\* Preloader.preloadImage(src) / preloadVideo(src); inDom says that a
\* complete element with this src is in the document.
Preload(P, type, src, inDom, t) ==
    LET cache == CleanupIfFull(CacheOf(P, type))
        known == MapHas(cache, src) \/ inDom
        el == [type |-> type, src |-> src,
               promise |-> IF known THEN "resolved" ELSE "pending"]
    IN  [WithCache(P, type, IF known THEN MapSet(cache, src, t) ELSE cache)
            EXCEPT !.elements[P.nextEl] = el, !.nextEl = @ + 1]

\* Assign the Preloader object P to the variables.
PreBecomes(P) ==
    /\ loadedImages' = P.loadedImages
    /\ loadedVideos' = P.loadedVideos
    /\ elements' = P.elements
    /\ nextEl' = P.nextEl

\* What the Preloader leaves alone.
NotMedia == <<storeVars, lastOp, ops, loadVars, navVars, domVars, envVars,
              widgetVars>>

\* A direct call of preloader.preloadImage(src)
PreloadImage(src, inDom) ==
    /\ nextEl + Len(queue) <= MaxPreloads
    /\ PreBecomes(Preload(Pre, "image", src, inDom, now))
    /\ UNCHANGED <<now, queue, dataCall, NotMedia>>

\* A direct call of preloader.preloadVideo(src)
PreloadVideo(src, inDom) ==
    /\ nextEl + Len(queue) <= MaxPreloads
    /\ PreBecomes(Preload(Pre, "video", src, inDom, now))
    /\ UNCHANGED <<now, queue, dataCall, NotMedia>>

\* img.onload / video.onloadedmetadata of the element of call id
MediaLoad(id) ==
    /\ elements[id].promise = "pending"
    /\ LET el == elements[id]
           P == WithCache(Pre, el.type,
                          MapSet(CacheOf(Pre, el.type), el.src, now))
       IN  PreBecomes([P EXCEPT !.elements[id].promise = "resolved"])
    /\ UNCHANGED <<now, queue, dataCall, NotMedia>>

\* img.onerror / video.onerror of the element of call id
MediaError(id) ==
    /\ elements[id].promise = "pending"
    /\ elements' = [elements EXCEPT ![id].promise = OnError(@)]
    /\ UNCHANGED <<now, queue, dataCall, loadedImages, loadedVideos, nextEl,
                   NotMedia>>

\* A filter that keeps every URL, recorded as loaded or not.
UnloadedAll(urls, cache) == urls

\* The URLs of a list the Map does not hold, in the order of the list.
Unloaded(urls, cache) ==
    LET Missing(url) == ~MapHas(cache, url) IN SelectSeq(urls, Missing)

\* The entries of the lists whose URL the Maps hold.
Recorded(imageUrls, videoUrls, images, videos) ==
    {[type |-> "image", url |-> imageUrls[i]] :
        i \in {j \in 1..Len(imageUrls) : MapHas(images, imageUrls[j])}}
    \cup {[type |-> "video", url |-> videoUrls[i]] :
             i \in {j \in 1..Len(videoUrls) : MapHas(videos, videoUrls[j])}}

\* Preloader.preloadFromData(data) with the image and video URLs that
\* extractMediaUrls finds in data, up to the scheduling of the first batch.
PreloadFromData(imageUrls, videoUrls) ==
    /\ queue = <<>>
    /\ LET unloadedImageUrls == Unloaded(imageUrls, loadedImages)
           unloadedVideoUrls == Unloaded(videoUrls, loadedVideos)
           allUrls == [i \in 1..Len(unloadedImageUrls) |->
                          [type |-> "image", url |-> unloadedImageUrls[i]]]
                      \o [i \in 1..Len(unloadedVideoUrls) |->
                            [type |-> "video", url |-> unloadedVideoUrls[i]]]
       IN  /\ nextEl + Len(allUrls) - 1 <= MaxPreloads
           /\ loadedImages' = CleanupIfFull(loadedImages)
           /\ loadedVideos' = CleanupIfFull(loadedVideos)
           /\ queue' = allUrls
           /\ dataCall' = [wanted |-> allUrls,
                           known |-> Recorded(imageUrls, videoUrls,
                                              loadedImages, loadedVideos),
                           batches |-> <<>>]
    /\ UNCHANGED <<now, elements, nextEl, NotMedia>>

RECURSIVE PreloadEach(_, _, _, _)
\* batch.forEach(({ type, url }) => ...) of loadBatch
PreloadEach(P, batch, k, t) ==
    IF k > Len(batch) THEN P
    ELSE PreloadEach(Preload(P, batch[k].type, batch[k].url, FALSE, t),
                     batch, k + 1, t)

Min(a, b) == IF a < b THEN a ELSE b

\* loadBatch(startIndex) in an idle period: the next batchSize URLs.
LoadBatch ==
    /\ queue # <<>>
    /\ LET endIndex == Min(batchSize, Len(queue))
       IN  /\ nextEl + endIndex - 1 <= MaxPreloads
           /\ PreBecomes(PreloadEach(Pre, SubSeq(queue, 1, endIndex), 1, now))
           /\ queue' = SubSeq(queue, endIndex + 1, Len(queue))
           /\ dataCall' = [dataCall EXCEPT
                             !.batches = Append(@, SubSeq(queue, 1, endIndex))]
    /\ UNCHANGED <<now, NotMedia>>

\* The media lists extractMediaUrls finds in a payload.
ImageLists == {<<1, 2, 3>>, <<2, 1>>, <<3>>}

VideoLists == {<<>>, <<1>>}

\* The state after new Preloader(), with an empty Store.
\* The application constructed over empty storage, nothing called yet.
InitConstructed ==
    /\ InitIdle
    /\ present = [session |-> TRUE, local |-> TRUE]
    /\ Constructed([r \in Routes |-> NoItem], "ok")
    /\ persistentStore = [k \in DurableKeys |-> NoItem]

InitPreload ==
    /\ InitConstructed
    /\ WidgetsNew

NextPreload ==
    \/ \E src \in Urls, inDom \in BOOLEAN : PreloadImage(src, inDom)
    \/ \E src \in Urls, inDom \in BOOLEAN : PreloadVideo(src, inDom)
    \/ \E id \in 1..MaxPreloads : MediaLoad(id)
    \/ \E id \in 1..MaxPreloads : MediaError(id)
    \/ \E imageUrls \in ImageLists, videoUrls \in VideoLists :
          PreloadFromData(imageUrls, videoUrls)
    \/ LoadBatch
    \/ Later

SpecPreload == InitPreload /\ [][NextPreload]_vars

\* The Preloader under the browser's scheduling: a batch handed to
\* requestIdleCallback with {timeout: 2000}, or to setTimeout(100), runs.
SpecPreloadFair == InitPreload /\ [][NextPreload]_vars /\ WF_vars(LoadBatch)

\* ------------------------------------------------------- extractMediaUrls

\* A URL is a positive number; NoUrl stands for the empty string and for a
\* field that is undefined, both falsy.
NoUrl == 0

\* if (value) list.push(value)
PushIf(list, value) == IF value # NoUrl THEN Append(list, value) ELSE list

\* A video whose thumbnail is put with the video URLs.
PushVideoMixed(acc, video) ==
    [imageUrls |-> acc.imageUrls,
     videoUrls |-> PushIf(PushIf(acc.videoUrls, video.thumbnail), video.url)]

\* if (video.thumbnail) imageUrls.push(...); if (video.url) videoUrls.push(...)
PushVideo(acc, video) ==
    [imageUrls |-> PushIf(acc.imageUrls, video.thumbnail),
     videoUrls |-> PushIf(acc.videoUrls, video.url)]

\* screenshots.forEach(screenshot => imageUrls.push(screenshot))
PushAll(acc, screenshots) == [acc EXCEPT !.imageUrls = @ \o screenshots]

\* videos.forEach(video => ...)
RECURSIVE EachVideo(_, _)
EachVideo(acc, videos) ==
    IF videos = <<>> THEN acc
    ELSE EachVideo(PushVideo(acc, Head(videos)), Tail(videos))

\* The body of data.posts.forEach
ExtractPost(acc, post) ==
    LET a1 == [acc EXCEPT !.imageUrls = PushIf(@, post.mainImage)]
        a2 == PushAll(a1, post.screenshots)
    IN  PushVideo(a2, post.video)

RECURSIVE EachPost(_, _)
EachPost(acc, posts) ==
    IF posts = <<>> THEN acc
    ELSE EachPost(ExtractPost(acc, Head(posts)), Tail(posts))

\* The body of collection.images?.forEach
ExtractImage(acc, image) ==
    LET a1 == [acc EXCEPT !.imageUrls = PushIf(@, image.url)]
        a2 == PushAll(a1, image.screenshots)
    IN  EachVideo(a2, image.videos)

RECURSIVE EachImage(_, _)
EachImage(acc, images) ==
    IF images = <<>> THEN acc
    ELSE EachImage(ExtractImage(acc, Head(images)), Tail(images))

RECURSIVE EachCollection(_, _)
EachCollection(acc, collections) ==
    IF collections = <<>> THEN acc
    ELSE EachCollection(EachImage(acc, Head(collections).images),
                        Tail(collections))

\* The body of data.groups.forEach
ExtractGroup(acc, group) ==
    EachVideo(PushAll(acc, group.screenshots), group.videos)

RECURSIVE EachGroup(_, _)
EachGroup(acc, groups) ==
    IF groups = <<>> THEN acc
    ELSE EachGroup(ExtractGroup(acc, Head(groups)), Tail(groups))

RECURSIVE EachEntry(_, _)
EachEntry(acc, entries) ==
    IF entries = <<>> THEN acc
    ELSE EachEntry(PushAll(acc, Head(entries).images), Tail(entries))

\* Preloader.extractMediaUrls(data)
ExtractMediaUrls(d) ==
    LET a0 == [imageUrls |-> <<>>, videoUrls |-> <<>>]
        a1 == EachPost(a0, d.posts)
        a2 == EachCollection(a1, d.collections)
        a3 == EachGroup(a2, d.groups)
        a4 == EachEntry(a3, d.entries)
    IN  [a4 EXCEPT !.imageUrls = PushIf(@, d.profile.avatar)]

\* The lists of screenshots and of history images in the payloads.
UrlLists == {<<>>, <<2>>, <<3, 2>>}

\* { url, thumbnail } of a validated video; both default to ''.
Videos == [thumbnail : {NoUrl, 4}, url : {NoUrl, 5}]

VideoSeqs == {<<>>} \cup {<<v>> : v \in Videos}
                 \cup {<<v, w>> : v \in {[thumbnail |-> 4, url |-> 5]},
                                  w \in {[thumbnail |-> 1, url |-> 6]}}

\* Posts as validatePost returns them.
Posts == [mainImage : {NoUrl, 1}, screenshots : UrlLists, video : Videos]

\* Collection images as validateCollectionImage returns them.
Images == [url : {NoUrl, 1}, screenshots : {<<>>, <<2>>}, videos : VideoSeqs]

\* Groups as validateGroup returns them for screenshots.json and videos.json.
Groups == [screenshots : UrlLists, videos : {<<>>}]
              \cup [screenshots : {<<>>}, videos : VideoSeqs]

Entries == [images : UrlLists]

\* The sequences of at most two elements of S.
UpToTwo(S) == {<<>>} \cup {<<x>> : x \in S} \cup {<<x, y>> : x \in S, y \in S}

\* A payload with no media at all.
EmptyData ==
    [posts |-> <<>>, collections |-> <<>>, groups |-> <<>>, entries |-> <<>>,
     profile |-> [avatar |-> NoUrl]]

\* The payloads of main.json, collections.json, screenshots.json, videos.json,
\* history.json and about.json after validation.
MediaPayloads ==
    {[EmptyData EXCEPT !.posts = ps] : ps \in UpToTwo(Posts)}
    \cup {[EmptyData EXCEPT !.collections = <<[images |-> is]>>] :
             is \in UpToTwo(Images)}
    \cup {[EmptyData EXCEPT !.collections = <<[images |-> <<i>>],
                                              [images |-> <<j>>]>>] :
             i \in Images, j \in {[url |-> 1, screenshots |-> <<2>>,
                                   videos |-> <<>>]}}
    \cup {[EmptyData EXCEPT !.groups = gs] : gs \in UpToTwo(Groups)}
    \cup {[EmptyData EXCEPT !.entries = es] : es \in UpToTwo(Entries)}
    \cup {[EmptyData EXCEPT !.profile = [avatar |-> a]] : a \in {NoUrl, 7}}

\* A payload is about to be handed to the extractor.
InitExtract ==
    /\ InitConstructed
    /\ mediaData \in MediaPayloads
    /\ extracted = NoResult
    /\ validatorErrors = <<>>
    /\ validated = NoResult
    /\ validations = 0
    /\ EventBusNew
    /\ ModalNew
    /\ CarouselNew
    /\ GridNew

NotPure == <<storeVars, now, lastOp, ops, loadVars, navVars, domVars, envVars,
             mediaVars, validatorErrors, validated, validations, busVars,
             modalVars, carouselVars,
             gridVars>>

\* const { imageUrls, videoUrls } = this.extractMediaUrls(data)
CallExtract ==
    /\ extracted = NoResult
    /\ extracted' = ExtractMediaUrls(mediaData)
    /\ UNCHANGED <<mediaData, NotPure>>

NextExtract == CallExtract

SpecExtract == InitExtract /\ [][NextExtract]_vars

\* ---------------------------------------------------------- DataValidator

\* JSON values, by what typeof and Array.isArray tell of them.
JUndef == [t |-> "undefined"]
JNull == [t |-> "null"]
JStr(s) == [t |-> "string", s |-> s]
JNum(n) == [t |-> "number", n |-> n]
JArr(a) == [t |-> "array", items |-> a]
JObj(f) == [t |-> "object", fields |-> f]

\* value === undefined || value === null
Missing(v) == v.t \in {"undefined", "null"}

\* !value
Falsy(v) ==
    \/ Missing(v)
    \/ v.t = "string" /\ v.s = ""
    \/ v.t = "number" /\ v.n = 0

\* !value || typeof value !== 'object'
NotObject(v) == Falsy(v) \/ v.t \notin {"object", "array"}

\* value.name
Prop(v, name) ==
    IF v.t = "object" /\ name \in DOMAIN v.fields THEN v.fields[name] ELSE JUndef

\* { ...o, name: v }
With(o, name, v) ==
    JObj([n \in DOMAIN o.fields \cup {name} |->
             IF n = name THEN v ELSE o.fields[n]])

\* o without its property name
Without(o, name) == JObj([n \in DOMAIN o.fields \ {name} |-> o.fields[n]])

\* String(value) throws a TypeError: an object whose own toString is not
\* callable has no primitive value, and an array joins its elements.
RECURSIVE ToStringThrows(_)
ToStringThrows(v) ==
    \/ v.t = "object" /\ "toString" \in DOMAIN v.fields
    \/ v.t = "array" /\ \E i \in 1..Len(v.items) : ToStringThrows(v.items[i])

\* String(value) of the values that are not strings.
StringOf(v) ==
    CASE v.t = "number" /\ v.n = 0 -> "0"
      [] v.t = "number" /\ v.n = 5 -> "5"
      [] v.t = "object" -> "[object Object]"
      [] v.t = "array" /\ v.items = <<>> -> ""

\* A validation step that returned val with this.errors as errors, or threw.
Ok(errors, val) == [errors |-> errors, threw |-> FALSE, val |-> val]
Thrown(errors) == [errors |-> errors, threw |-> TRUE, val |-> JUndef]

\* DataValidator.validateString(value, fieldName, required)
ValidateString(errors, value, fieldName, required) ==
    IF Missing(value)
    THEN IF required
         THEN Ok(Append(errors, <<"Missing required field", fieldName>>),
                 JStr(""))
         ELSE Ok(errors, JNull)
    ELSE IF value.t # "string"
         THEN LET pushed == Append(errors, <<"must be a string", fieldName>>)
              IN  IF ToStringThrows(value) THEN Thrown(pushed)
                  ELSE Ok(pushed, JStr(StringOf(value)))
         ELSE Ok(errors, value)

\* DataValidator.validateArray(value, fieldName, required)
ValidateArray(errors, value, fieldName, required) ==
    IF Missing(value)
    THEN IF required
         THEN Ok(Append(errors, <<"Missing required field", fieldName>>),
                 JArr(<<>>))
         ELSE Ok(errors, JNull)
    ELSE IF value.t # "array"
         THEN Ok(Append(errors, <<"must be an array", fieldName>>), JArr(<<>>))
         ELSE Ok(errors, value)

\* DataValidator.validateObject(value, fieldName, required)
ValidateObject(errors, value, fieldName, required) ==
    IF Missing(value)
    THEN IF required
         THEN Ok(Append(errors, <<"Missing required field", fieldName>>),
                 JObj(<<>>))
         ELSE Ok(errors, JNull)
    ELSE IF value.t # "object"
         THEN Ok(Append(errors, <<"must be an object", fieldName>>), JObj(<<>>))
         ELSE Ok(errors, value)

\* step || fallback
OrDefault(r, fallback) ==
    IF ~r.threw /\ Falsy(r.val) THEN [r EXCEPT !.val = fallback] ELSE r

\* A property of a validated object: validateString(x.name, label) is "req",
\* validateString(x.name, label, false) || '' is "opt", ... || null is
\* "optNull", validateArray(x.name, label, false) || [] is "arr" and
\* validateVideo(x.name, label) is "video".
F(name, kind, label) == [name |-> name, kind |-> kind, label |-> label]

\* The properties validateVideo returns.
VideoFields(label) ==
    <<F("url", "req", label), F("thumbnail", "opt", label),
      F("duration", "opt", label)>>

\* The properties of the object literal each validator builds.
FieldsOf(kind) ==
    CASE kind = "post" ->
           <<F("id", "req", "post.id"), F("date", "req", "post.date"),
             F("title", "req", "post.title"),
             F("description", "opt", "post.description"),
             F("mainImage", "req", "post.mainImage"),
             F("screenshots", "arr", "post.screenshots"),
             F("video", "video", "post.video")>>
      [] kind = "image" ->
           <<F("id", "req", "image.id"), F("url", "req", "image.url"),
             F("title", "opt", "image.title"),
             F("description", "opt", "image.description"),
             F("screenshots", "arr", "image.screenshots"),
             F("videos", "arr", "image.videos"),
             F("downloadLink", "opt", "image.downloadLink")>>
      [] kind = "collection" ->
           <<F("id", "req", "collection.id"),
             F("title", "req", "collection.title"),
             F("date", "optNull", "collection.date"),
             F("description", "opt", "collection.description"),
             F("images", "arr", "collection.images")>>
      [] kind = "screenshots" ->
           <<F("id", "req", "group.id"), F("title", "req", "group.title"),
             F("date", "optNull", "group.date"),
             F("description", "opt", "group.description"),
             F("screenshots", "arr", "group.screenshots")>>
      [] kind = "videos" ->
           <<F("id", "req", "group.id"), F("title", "req", "group.title"),
             F("date", "optNull", "group.date"),
             F("description", "opt", "group.description"),
             F("videos", "arr", "group.videos")>>
      [] kind = "groupVideo" ->
           <<F("url", "req", "group.videos.url"),
             F("thumbnail", "opt", "group.videos.thumbnail"),
             F("duration", "opt", "group.videos.duration"),
             F("title", "opt", "group.videos.title")>>
      [] kind = "entry" ->
           <<F("id", "req", "entry.id"), F("date", "req", "entry.date"),
             F("title", "req", "entry.title"),
             F("description", "opt", "entry.description"),
             F("images", "arr", "entry.images")>>
      [] kind = "profile" ->
           <<F("avatar", "opt", "profile.avatar"),
             F("nickname", "opt", "profile.nickname"),
             F("bio", "opt", "profile.bio"),
             F("bioSecond", "opt", "profile.bioSecond")>>
      [] kind = "timeline" ->
           <<F("date", "opt", "timeline.date"),
             F("event", "opt", "timeline.event")>>
      [] kind = "links" ->
           <<F("name", "opt", "links.name"), F("url", "opt", "links.url"),
             F("icon", "opt", "links.icon")>>
      [] kind = "stats" ->
           <<F("number", "opt", "stats.number"),
             F("label", "opt", "stats.label")>>
      [] kind = "sections" ->
           <<F("title", "opt", "sections.title"),
             F("description", "opt", "sections.description")>>
      [] kind = "about" ->
           <<F("timeline", "arr", "timeline"), F("links", "arr", "links"),
             F("stats", "arr", "stats"), F("sections", "arr", "sections")>>

\* The validators that return null for an element that is no object; the
\* others return an object of empty strings.
Dropped == {"post", "image", "collection", "screenshots", "videos", "entry"}

\* The array property whose elements the validator maps, and by what.
NestedOf(kind) ==
    CASE kind = "image" -> <<F("videos", "video", "image.videos")>>
      [] kind = "collection" -> <<F("images", "image", "collection.images")>>
      [] kind = "videos" -> <<F("videos", "groupVideo", "group.videos")>>
      [] kind = "about" ->
           <<F("timeline", "timeline", "timeline"), F("links", "links", "links"),
             F("stats", "stats", "stats"),
             F("sections", "sections", "sections")>>
      [] OTHER -> <<>>

\* The object returned for an element that is no object.
GuardDefault(kind) ==
    IF kind \in Dropped THEN JNull
    ELSE JObj([n \in {FieldsOf(kind)[i].name : i \in 1..Len(FieldsOf(kind))}
                  |-> JStr("")])

RECURSIVE ValidateFields(_, _, _)
RECURSIVE ValidateItem(_, _, _)
RECURSIVE MapItems(_, _, _, _)
RECURSIVE MapNested(_, _)

\* DataValidator.validateVideo(video, fieldName)
ValidateVideo(errors, video, fieldName) ==
    LET videoObj == ValidateObject(errors, video, fieldName, TRUE)
    IN  ValidateFields(Ok(videoObj.errors, JObj(<<>>)), videoObj.val,
                       VideoFields(fieldName))

\* One property of the object literal.
ValidateField(errors, value, f) ==
    CASE f.kind = "req" -> ValidateString(errors, value, f.label, TRUE)
      [] f.kind = "opt" ->
           OrDefault(ValidateString(errors, value, f.label, FALSE), JStr(""))
      [] f.kind = "optNull" ->
           OrDefault(ValidateString(errors, value, f.label, FALSE), JNull)
      [] f.kind = "arr" ->
           OrDefault(ValidateArray(errors, value, f.label, FALSE), JArr(<<>>))
      [] f.kind = "video" -> ValidateVideo(errors, value, f.label)

\* The object literal, property after property; r.val holds those built.
ValidateFields(r, obj, fields) ==
    IF r.threw \/ fields = <<>> THEN r
    ELSE LET f == Head(fields)
             step == ValidateField(r.errors, Prop(obj, f.name), f)
         IN  IF step.threw THEN step
             ELSE ValidateFields(Ok(step.errors, With(r.val, f.name, step.val)),
                                 obj, Tail(fields))

\* validatePost, validateCollectionImage, validateCollection, validateGroup,
\* validateHistoryEntry and the callbacks given to map, by kind of element.
ValidateItem(kind, errors, item) ==
    IF kind = "video" THEN ValidateVideo(errors, item, "image.videos")
    ELSE IF NotObject(item)
         THEN Ok(Append(errors, <<"must be an object", kind>>),
                 GuardDefault(kind))
         ELSE MapNested(ValidateFields(Ok(errors, JObj(<<>>)), item,
                                       FieldsOf(kind)),
                        NestedOf(kind))

\* items.map(item => validate(item)), then .filter(x => x !== null) for the
\* validators that return null; out holds the elements done.
MapItems(kind, r, items, out) ==
    IF r.threw THEN r
    ELSE IF items = <<>> THEN Ok(r.errors, JArr(out))
    ELSE LET step == ValidateItem(kind, r.errors, Head(items))
         IN  IF step.threw THEN step
             ELSE MapItems(kind, step, Tail(items),
                           IF step.val = JNull THEN out
                           ELSE Append(out, step.val))

\* validated.videos = validated.videos.map(...), for each such property.
MapNested(r, nested) ==
    IF r.threw \/ nested = <<>> THEN r
    ELSE LET f == Head(nested)
             step == MapItems(f.kind, r, r.val.fields[f.name].items, <<>>)
         IN  IF step.threw THEN step
             ELSE MapNested(Ok(step.errors, With(r.val, f.name, step.val)),
                            Tail(nested))

\* The six entry points with the array each one reads and its elements.
EntryPoints ==
    [validateMain |-> F("posts", "post", "posts"),
     validateCollections |-> F("collections", "collection", "collections"),
     validateScreenshots |-> F("groups", "screenshots", "groups"),
     validateVideos |-> F("groups", "videos", "groups"),
     validateHistory |-> F("entries", "entry", "entries")]

Resetting == DOMAIN EntryPoints

EntryNames == Resetting \cup {"validateAbout"}

\* DataValidator.validateAbout(data), this.errors being errors: it pushes
\* onto the errors it finds.
ValidateAbout(errors, data) ==
    IF NotObject(data)
    THEN Ok(Append(errors, <<"must be an object", "validateAbout">>), JNull)
    ELSE LET profile == ValidateObject(errors, Prop(data, "profile"),
                                       "profile", TRUE)
             inner == ValidateFields(Ok(profile.errors, JObj(<<>>)),
                                     profile.val, FieldsOf("profile"))
         IN  IF inner.threw THEN inner
             ELSE MapNested(
                    ValidateFields(
                      Ok(inner.errors, JObj([profile |-> inner.val])),
                      data, FieldsOf("about")),
                    NestedOf("about"))

\* DataValidator.validateMain(data) and its four siblings: this.errors = []
\* comes first.
ValidateList(entry, data) ==
    LET e == EntryPoints[entry]
    IN  IF NotObject(data)
        THEN Ok(<<<<"must be an object", entry>>>>, JNull)
        ELSE LET list == OrDefault(ValidateArray(<<>>, Prop(data, e.name),
                                                 e.label, FALSE),
                                   JArr(<<>>))
                 mapped == MapItems(e.kind, list, list.val.items, <<>>)
             IN  IF mapped.threw THEN mapped
                 ELSE Ok(mapped.errors, JObj([n \in {e.name} |-> mapped.val]))

\* validator[entry](data), this.errors being errors
Validate(entry, errors, data) ==
    IF entry = "validateAbout" THEN ValidateAbout(errors, data)
    ELSE ValidateList(entry, data)

\* DataValidator.hasErrors()
HasErrors(errors) == Len(errors) > 0

\* A JSON object with an own property toString, which no JSON value can
\* make callable.
Hostile == JObj([toString |-> JStr("x")])

\* Values that are present and are not strings.
NotStrings == {JNum(5), JNum(0), JArr(<<>>), JObj(<<>>), Hostile}

\* The element with one property missing, mistyped or of the wrong kind.
Damaged(good, names) ==
    {good} \cup {Without(good, n) : n \in names}
           \cup {With(good, n, b) : n \in names, b \in NotStrings}

GoodVideo == JObj([url |-> JStr("v")])

GoodPost ==
    JObj([id |-> JStr("a"), date |-> JStr("d"), title |-> JStr("t"),
          mainImage |-> JStr("m"), video |-> GoodVideo])

GoodImage == JObj([id |-> JStr("a"), url |-> JStr("u")])

GoodCollection == JObj([id |-> JStr("a"), title |-> JStr("t")])

GoodGroup == JObj([id |-> JStr("a"), title |-> JStr("t")])

GoodEntry ==
    JObj([id |-> JStr("a"), date |-> JStr("d"), title |-> JStr("t")])

\* Elements of the array each entry point reads.
ItemsOf(kind) ==
    {JNull, JNum(5)} \cup
    CASE kind = "post" ->
           Damaged(GoodPost, {"id", "description", "screenshots", "video"})
      [] kind = "collection" ->
           Damaged(GoodCollection, {"id", "date"})
           \cup {With(GoodCollection, "images", JArr(is)) :
                    is \in {<<JNull>>, <<GoodImage>>,
                            <<With(GoodImage, "videos", JArr(<<JNum(5)>>))>>,
                            <<With(GoodImage, "videos", JArr(<<GoodVideo>>)),
                              Without(GoodImage, "url")>>}}
      [] kind = "screenshots" ->
           Damaged(GoodGroup, {"id", "screenshots"})
           \cup {With(GoodGroup, "screenshots", JArr(<<JStr("s")>>))}
      [] kind = "videos" ->
           Damaged(GoodGroup, {"title"})
           \cup {With(GoodGroup, "videos", JArr(vs)) :
                    vs \in {<<JNull>>, <<GoodVideo>>, <<JObj(<<>>)>>,
                            <<With(GoodVideo, "title", Hostile)>>}}
      [] kind = "entry" -> Damaged(GoodEntry, {"id", "images"})

\* A payload that is no object, an array, or an object whose array is
\* missing, mistyped or holds at most two elements.
PayloadsOf(name, items) ==
    {JNull, JNum(5), JStr("s"), JArr(<<>>), JObj(<<>>)}
    \cup {JObj([n \in {name} |-> v]) :
             v \in {JNum(5), JArr(<<>>)}
                   \cup {JArr(<<x>>) : x \in items}
                   \cup {JArr(<<JNull, x>>) : x \in items}
                   \cup {JArr(<<x, x>>) : x \in items}}

\* about.json payloads.
AboutPayloads ==
    {JNull, JNum(5), JArr(<<>>), JObj(<<>>)}
    \cup {JObj([profile |-> p, timeline |-> t, links |-> l]) :
             p \in {JNum(5), JObj([avatar |-> JStr("p")]),
                    JObj([avatar |-> JNum(5)]), JObj([bio |-> Hostile])},
             t \in {JNull, JNum(5), JArr(<<JNull>>),
                    JArr(<<JObj([date |-> JStr("d")])>>)},
             l \in {JArr(<<>>), JArr(<<JObj([url |-> JNum(5)])>>)}}

\* The inputs given to each entry point.
InputsOf(entry) ==
    IF entry = "validateAbout" THEN AboutPayloads
    ELSE PayloadsOf(EntryPoints[entry].name, ItemsOf(EntryPoints[entry].kind))

\* new DataValidator()
InitValidator ==
    /\ InitConstructed
    /\ mediaData = NoData
    /\ extracted = NoResult
    /\ validatorErrors = <<>>
    /\ validated = NoResult
    /\ validations = 0
    /\ EventBusNew
    /\ ModalNew
    /\ CarouselNew
    /\ GridNew

NotValidator == <<storeVars, now, lastOp, ops, loadVars, navVars, domVars,
                  envVars, mediaVars, mediaData, extracted, busVars,
                  modalVars, carouselVars,
             gridVars>>

\* The property the entry point reads first is there and is of another type
\* than the entry point expects, or is required and missing.
Mistyped(entry, input) ==
    /\ input.t = "object"
    /\ IF entry = "validateAbout"
       THEN Prop(input, "profile").t # "object"
       ELSE Prop(input, EntryPoints[entry].name).t
                \notin {"undefined", "null", "array"}

\* validator[entry](data): the call with what it returned or that it threw,
\* and the number of this.errors.push it made.
CallValidate(entry, input) ==
    /\ validations < MaxValidations
    /\ LET before == IF entry \in Resetting THEN <<>> ELSE validatorErrors
           r == Validate(entry, validatorErrors, input)
       IN  /\ validatorErrors' = r.errors
           /\ validated' = [entry |-> entry, top |-> input.t,
                            mistyped |-> Mistyped(entry, input),
                            threw |-> r.threw, val |-> r.val,
                            recorded |-> Len(r.errors) - Len(before)]
    /\ validations' = validations + 1
    /\ UNCHANGED NotValidator

NextValidator ==
    \E entry \in EntryNames : \E input \in InputsOf(entry) :
        CallValidate(entry, input)

SpecValidator == InitValidator /\ [][NextValidator]_vars

\* ---------------------------------------------------------------- EventBus

\* What a callback does when it is invoked: return, throw, unsubscribe
\* itself, unsubscribe the callback after it, or emit the event again.
Behaviours == {"returns", "throws", "offSelf", "offNext", "emits"}

\* The callback after cb, the first one after the last.
NextCallback(cb) == (cb % MaxCallbacks) + 1

\* A subscription: the callback itself (wrapper 0) or a wrapper made by once.
Listener(cb, wrapper) == [cb |-> cb, wrapper |-> wrapper]

\* callbacks.indexOf(callback), 0 when it is not there
IndexOf(callbacks, l) ==
    IF \E i \in 1..Len(callbacks) : callbacks[i] = l
    THEN CHOOSE i \in 1..Len(callbacks) :
            /\ callbacks[i] = l
            /\ \A j \in 1..(i - 1) : callbacks[j] # l
    ELSE 0

\* callbacks.splice(index, 1)
Splice(callbacks, index) ==
    SubSeq(callbacks, 1, index - 1) \o SubSeq(callbacks, index + 1, Len(callbacks))

\* EventBus.off(event, callback) on the array of the event; the empty
\* sequence stands for the event without an array.
BusOff(callbacks, l) ==
    IF IndexOf(callbacks, l) > 0 THEN Splice(callbacks, IndexOf(callbacks, l))
    ELSE callbacks

\* EventBus.on(event, callback)
BusOn(callbacks, l) == Append(callbacks, l)

\* A run of emit: the array of the event, the invocations made so far and
\* whether the callback running now has thrown.
Run(callbacks, log, threw) ==
    [callbacks |-> callbacks, log |-> log, threw |-> threw]

RECURSIVE BusEmit(_, _, _)
RECURSIVE ForEach(_, _, _, _, _)

\* callback(data) for the callback of subscription l, in the emit nested
\* depth deep
Invoke(B, l, run, depth) ==
    LET cb == l.cb
        called == Run(run.callbacks,
                      Append(run.log, [cb |-> cb, wrapper |-> l.wrapper,
                                       depth |-> depth]), FALSE)
    IN  CASE B[cb] = "returns" -> called
          [] B[cb] = "throws" -> [called EXCEPT !.threw = TRUE]
          [] B[cb] = "offSelf" ->
               [called EXCEPT !.callbacks = BusOff(@, Listener(cb, 0))]
          [] B[cb] = "offNext" ->
               [called EXCEPT !.callbacks =
                                 BusOff(@, Listener(NextCallback(cb), 0))]
          [] B[cb] = "emits" ->
               IF depth < MaxDepth THEN BusEmit(B, called, depth + 1)
               ELSE called

\* The wrapper of once: callback(data); this.off(event, wrapper)
Wrapper(B, l, run, depth) ==
    LET called == Invoke(B, l, run, depth)
    IN  IF called.threw THEN called
        ELSE [called EXCEPT !.callbacks = BusOff(@, l)]

\* The function given to callbacks.forEach: try { callback(data) } catch {}
TryCall(B, l, run, depth) ==
    LET called == IF l.wrapper = 0 THEN Invoke(B, l, run, depth)
                  ELSE Wrapper(B, l, run, depth)
    IN  [called EXCEPT !.threw = FALSE]

\* callbacks.forEach(...) from index k on: the length is read once, an index
\* the array no longer has is passed over.
ForEach(B, run, k, len, depth) ==
    IF k > len \/ k > Len(run.callbacks) THEN run
    ELSE ForEach(B, TryCall(B, run.callbacks[k], run, depth), k + 1, len, depth)

\* EventBus.emit(event, data)
BusEmit(B, run, depth) ==
    IF run.callbacks = <<>> THEN run
    ELSE ForEach(B, run, 1, Len(run.callbacks), depth)

\* The bus with callbacks of any behaviour.
InitBus ==
    /\ InitConstructed
    /\ PureNew
    /\ listeners = <<>>
    /\ behaviour \in [Callbacks -> Behaviours]
    /\ lastEmit = NoEmit
    /\ onceCalls = [w \in 1..MaxSubscriptions |-> 0]
    /\ subscriptions = 0
    /\ emits = 0
    /\ ModalNew
    /\ CarouselNew
    /\ GridNew

NotBus == <<storeVars, now, lastOp, ops, loadVars, navVars, domVars, envVars,
            mediaVars, pureVars, modalVars, carouselVars,
             gridVars>>

\* bus.on(event, cb) for a callback that is not subscribed
On(cb) ==
    /\ subscriptions < MaxSubscriptions
    /\ Listener(cb, 0) \notin {listeners[i] : i \in 1..Len(listeners)}
    /\ listeners' = BusOn(listeners, Listener(cb, 0))
    /\ subscriptions' = subscriptions + 1
    /\ UNCHANGED <<behaviour, lastEmit, onceCalls, emits, NotBus>>

\* bus.once(event, cb)
Once(cb) ==
    /\ subscriptions < MaxSubscriptions
    /\ listeners' = BusOn(listeners, Listener(cb, subscriptions + 1))
    /\ subscriptions' = subscriptions + 1
    /\ UNCHANGED <<behaviour, lastEmit, onceCalls, emits, NotBus>>

\* bus.off(event, cb), also as the function that on returned
Off(cb) ==
    /\ listeners' = BusOff(listeners, Listener(cb, 0))
    /\ listeners' # listeners
    /\ UNCHANGED <<behaviour, lastEmit, onceCalls, subscriptions, emits, NotBus>>

\* The number of invocations in the log made through the wrapper w.
CallsOf(log, w) ==
    LET Through(e) == e.wrapper = w IN Len(SelectSeq(log, Through))

\* bus.emit(event, data), from outside any callback
Emit ==
    /\ emits < MaxEmits
    /\ LET run == BusEmit(behaviour, Run(listeners, <<>>, FALSE), 0)
       IN  /\ listeners' = run.callbacks
           /\ lastEmit' = [subscribed |-> listeners, log |-> run.log,
                           done |-> TRUE]
           /\ onceCalls' = [w \in 1..MaxSubscriptions |->
                               onceCalls[w] + CallsOf(run.log, w)]
    /\ emits' = emits + 1
    /\ UNCHANGED <<behaviour, subscriptions, NotBus>>

NextBus ==
    \/ \E cb \in Callbacks : On(cb)
    \/ \E cb \in Callbacks : Once(cb)
    \/ \E cb \in Callbacks : Off(cb)
    \/ Emit

SpecBus == InitBus /\ [][NextBus]_vars

\* ------------------------------------------------------------------- Modal

\* The markup given to open, pushContent and setContent.
Contents == 1..MaxContents

\* The handlers a page gives to setKeyboardHandler.
PageHandlers == 1..MaxPageHandlers

\* element.getAttribute('aria-hidden')
AriaValues == {"null", "true", "false"}

\* document.addEventListener('keydown', handler): the listener added
Handler(kind, id) == [kind |-> kind, id |-> id]

\* Modal.pushContent(content) on the markup shown and the stack
ModalPush(shown, stack, c) ==
    [shown |-> c,
     stack |-> IF shown # Blank THEN Append(stack, shown) ELSE stack]

\* A popContent that takes the oldest markup of the stack.
ModalPopOldest(shown, stack) ==
    IF Len(stack) > 0
    THEN [shown |-> Head(stack), stack |-> Tail(stack), returned |-> TRUE]
    ELSE [shown |-> shown, stack |-> stack, returned |-> FALSE]

\* Modal.popContent() on the markup shown and the stack
ModalPop(shown, stack) ==
    IF Len(stack) > 0
    THEN [shown |-> stack[Len(stack)],
          stack |-> SubSeq(stack, 1, Len(stack) - 1), returned |-> TRUE]
    ELSE [shown |-> shown, stack |-> stack, returned |-> FALSE]

\* Modal.hideElementsOutsideModal() from element k of elementsToHide on:
\* H.aria are the attributes, H.hidden is this.hiddenElements.
RECURSIVE HideEach(_, _, _)
HideEach(H, toHide, k) ==
    IF k > Len(toHide) THEN H
    ELSE HideEach([aria |-> [H.aria EXCEPT ![toHide[k]] = "true"],
                   hidden |-> Append(H.hidden,
                                     [element |-> toHide[k],
                                      previousValue |-> H.aria[toHide[k]]])],
                  toHide, k + 1)

HideElementsOutsideModal(aria, toHide) ==
    HideEach([aria |-> aria, hidden |-> <<>>], toHide, 1)

\* Modal.showElementsOutsideModal() from entry k of this.hiddenElements on
RECURSIVE ShowEach(_, _, _)
ShowEach(aria, hidden, k) ==
    IF k > Len(hidden) THEN aria
    ELSE ShowEach([aria EXCEPT ![hidden[k].element] = hidden[k].previousValue],
                  hidden, k + 1)

ShowElementsOutsideModal(aria, hidden) == ShowEach(aria, hidden, 1)

\* The page with its elements outside the modal: nav is found a second time
\* by [role="navigation"] when it carries that role.
InitModal ==
    /\ InitConstructed
    /\ PureNew
    /\ EventBusNew
    /\ modalContent = Blank
    /\ contentStack = <<>>
    /\ active = FALSE
    /\ ariaHidden \in [Outside -> AriaValues]
    /\ elementsToHide \in {<<"main-content", "nav">>,
                           <<"main-content", "nav", "nav">>}
    /\ hiddenElements = <<>>
    /\ focusTrapHandler = 0
    /\ keyboardHandler = 0
    /\ keydown = {Handler("escape", 0)}
    /\ nextHandler = 1
    /\ modalLog = [NoModalOp EXCEPT !.aria = ariaHidden]
    /\ CarouselNew
    /\ GridNew

NotModal == <<storeVars, now, lastOp, ops, loadVars, navVars, domVars, envVars,
              mediaVars, pureVars, busVars, carouselVars,
             gridVars>>

\* What the history keeps of a call: the call, the one before it, the markup
\* and the stack it found, the markup the last pushContent found, the
\* attributes found by the open that opened the modal, whether the last
\* open found the modal open, the value returned.
Logged(op, returned) ==
    [op |-> op, prev |-> modalLog.op, shown |-> modalContent,
     stack |-> contentStack,
     pushedOver |-> IF op = "push" THEN modalContent ELSE modalLog.pushedOver,
     aria |-> IF op = "open" /\ ~active THEN ariaHidden ELSE modalLog.aria,
     reopened |-> IF op = "open" THEN active ELSE modalLog.reopened,
     returned |-> returned]

\* modal.open(content)
Open(c) ==
    /\ nextHandler <= MaxHandlers
    /\ LET H == HideElementsOutsideModal(ariaHidden, elementsToHide)
       IN  /\ ariaHidden' = H.aria
           /\ hiddenElements' = H.hidden
    /\ modalContent' = c
    /\ active' = TRUE
    /\ focusTrapHandler' = nextHandler
    /\ keydown' = keydown \cup {Handler("trap", nextHandler)}
    /\ nextHandler' = nextHandler + 1
    /\ modalLog' = Logged("open", FALSE)
    /\ UNCHANGED <<contentStack, elementsToHide, keyboardHandler, NotModal>>

\* modal.close()
Close ==
    /\ keyboardHandler' = 0
    /\ focusTrapHandler' = 0
    /\ keydown' = (keydown \ {Handler("page", keyboardHandler)})
                     \ {Handler("trap", focusTrapHandler)}
    /\ active' = FALSE
    /\ ariaHidden' = ShowElementsOutsideModal(ariaHidden, hiddenElements)
    /\ hiddenElements' = <<>>
    /\ modalContent' = Blank
    /\ contentStack' = <<>>
    /\ modalLog' = Logged("close", FALSE)
    /\ UNCHANGED <<elementsToHide, nextHandler, NotModal>>

\* modal.pushContent(content)
PushContent(c) ==
    /\ Len(contentStack) < MaxStack
    /\ LET M == ModalPush(modalContent, contentStack, c)
       IN  /\ modalContent' = M.shown
           /\ contentStack' = M.stack
    /\ modalLog' = Logged("push", FALSE)
    /\ UNCHANGED <<active, ariaHidden, elementsToHide, hiddenElements,
                   focusTrapHandler, keyboardHandler, keydown, nextHandler,
                   NotModal>>

\* modal.popContent()
PopContent ==
    /\ LET M == ModalPop(modalContent, contentStack)
       IN  /\ modalContent' = M.shown
           /\ contentStack' = M.stack
           /\ modalLog' = Logged("pop", M.returned)
    /\ UNCHANGED <<active, ariaHidden, elementsToHide, hiddenElements,
                   focusTrapHandler, keyboardHandler, keydown, nextHandler,
                   NotModal>>

\* modal.setKeyboardHandler(handler), handler 0 being null
SetKeyboardHandler(h) ==
    /\ keyboardHandler' = h
    /\ keydown' = (keydown \ {Handler("page", keyboardHandler)})
                     \cup (IF h = 0 THEN {} ELSE {Handler("page", h)})
    /\ modalLog' = Logged("setKeyboardHandler", FALSE)
    /\ UNCHANGED <<modalContent, contentStack, active, ariaHidden,
                   elementsToHide, hiddenElements, focusTrapHandler,
                   nextHandler, NotModal>>

NextModal ==
    \/ \E c \in Contents : Open(c)
    \/ Close
    \/ \E c \in Contents : PushContent(c)
    \/ PopContent
    \/ \E h \in PageHandlers \cup {0} : SetKeyboardHandler(h)

SpecModal == InitModal /\ [][NextModal]_vars

\* ---------------------------------------------------------------- Carousel

\* Math.min and Math.max
MathMin(a, b) == IF a < b THEN a ELSE b
MathMax(a, b) == IF a > b THEN a ELSE b

\* Carousel.next(): the new currentIndex
CarouselNext(index, total, perView, looping) ==
    IF looping THEN (index + 1) % total
    ELSE MathMin(index + 1, total - perView)

\* Carousel.prev(): the new currentIndex
CarouselPrev(index, total, looping) ==
    IF looping THEN (index - 1 + total) % total
    ELSE MathMax(index - 1, 0)

\* Carousel.goTo(index): the new currentIndex
CarouselGoTo(index, total, target) ==
    IF target >= 0 /\ target < total THEN target ELSE index

\* new Carousel(container, options) over a container with 1..MaxItems items
InitCarousel ==
    /\ InitConstructed
    /\ PureNew
    /\ EventBusNew
    /\ ModalNew
    /\ currentIndex = 0
    /\ totalItems \in 1..MaxItems
    /\ itemsPerView \in 1..MaxPerView
    /\ loop \in BOOLEAN
    /\ carouselLog = NoCarouselOp
    /\ GridNew

NotCarousel == <<storeVars, now, lastOp, ops, loadVars, navVars, domVars,
                 envVars, mediaVars, pureVars, busVars, modalVars, gridVars>>

\* carousel.next()
GoNext ==
    /\ currentIndex' = CarouselNext(currentIndex, totalItems, itemsPerView, loop)
    /\ carouselLog' = [op |-> "next", target |-> 0, before |-> currentIndex]
    /\ UNCHANGED <<totalItems, itemsPerView, loop, NotCarousel>>

\* carousel.prev()
GoPrev ==
    /\ currentIndex' = CarouselPrev(currentIndex, totalItems, loop)
    /\ carouselLog' = [op |-> "prev", target |-> 0, before |-> currentIndex]
    /\ UNCHANGED <<totalItems, itemsPerView, loop, NotCarousel>>

\* carousel.goTo(index)
GoTo(target) ==
    /\ currentIndex' = CarouselGoTo(currentIndex, totalItems, target)
    /\ carouselLog' = [op |-> "goTo", target |-> target, before |-> currentIndex]
    /\ UNCHANGED <<totalItems, itemsPerView, loop, NotCarousel>>

\* The indices given to goTo: one below the range to one above it.
Targets == (0 - 1)..MaxItems

NextCarousel ==
    \/ GoNext
    \/ GoPrev
    \/ \E target \in Targets : GoTo(target)

SpecCarousel == InitCarousel /\ [][NextCarousel]_vars

\* ---------------------------------------------------------- VirtualizedGrid

\* The indices of the current list.
GridIndices == 1..MaxGridItems

\* placeholder.innerHTML before renderItem has filled it
Unrendered == 0

\* new VirtualizedGrid(container, items, options) with 1..MaxGridItems items:
\* init has made the observer and the placeholders, nothing is reported yet.
GridOf(n, g) ==
    /\ generation = g
    /\ itemCount = n
    /\ placeholderContent = [i \in GridIndices |-> Unrendered]
    /\ observed = 1..n
    /\ intersecting = {}
    /\ renderedItems = {}
    /\ isRendering = FALSE
    /\ frames = <<>>
    /\ reported = {}
    /\ renders = [i \in GridIndices |-> 0]

InitGrid ==
    /\ InitConstructed
    /\ PureNew
    /\ EventBusNew
    /\ ModalNew
    /\ CarouselNew
    /\ \E n \in GridIndices : GridOf(n, 1)

NotGrid == <<storeVars, now, lastOp, ops, loadVars, navVars, domVars, envVars,
             mediaVars, pureVars, busVars, modalVars, carouselVars>>

\* VirtualizedGrid.renderItem(index) up to requestAnimationFrame: G.busy is
\* this.isRendering, G.queue the animation frame callbacks requested.
RenderItem(G, index) ==
    IF index < 1 \/ index > itemCount THEN G
    ELSE IF G.busy \/ index \in renderedItems THEN G
    ELSE [busy |-> TRUE,
          queue |-> Append(G.queue, [generation |-> generation,
                                     index |-> index])]

\* entries.forEach(entry => ...) of the observer callback over the entries
\* of the placeholders from index k on, all of them intersecting
RECURSIVE ForEachEntry(_, _, _)
ForEachEntry(G, S, k) ==
    IF k > MaxGridItems THEN G
    ELSE ForEachEntry(IF k \in S /\ k \notin renderedItems
                    THEN RenderItem(G, k) ELSE G,
                    S, k + 1)

\* The observer reports the placeholders S, which came into view together.
Intersect(S) ==
    /\ S # {}
    /\ S \subseteq observed \ intersecting
    /\ LET G == ForEachEntry([busy |-> isRendering, queue |-> frames], S, 1)
       IN  /\ isRendering' = G.busy
           /\ frames' = G.queue
    /\ intersecting' = intersecting \cup S
    /\ reported' = reported \cup S
    /\ UNCHANGED <<generation, itemCount, placeholderContent, observed,
                   renderedItems, renders, NotGrid>>

\* The observer reports that placeholder i has left the view.
Leave(i) ==
    /\ i \in observed \cap intersecting
    /\ intersecting' = intersecting \ {i}
    /\ UNCHANGED <<generation, itemCount, placeholderContent, observed,
                   renderedItems, isRendering, frames, reported, renders,
                   NotGrid>>

\* The animation frame callback requested first runs: it fills the
\* placeholder it was requested for, which is no longer in the document when
\* the list has been replaced since, and records the index.
Frame ==
    /\ frames # <<>>
    /\ LET f == Head(frames)
           current == f.generation = generation /\ f.index <= itemCount
       IN  /\ placeholderContent' =
                 IF current
                 THEN [placeholderContent EXCEPT ![f.index] = f.generation]
                 ELSE placeholderContent
           /\ renderedItems' = renderedItems \cup {f.index}
           /\ observed' = IF current THEN observed \ {f.index} ELSE observed
           /\ renders' = IF current THEN [renders EXCEPT ![f.index] = @ + 1]
                         ELSE renders
    /\ isRendering' = FALSE
    /\ frames' = Tail(frames)
    /\ UNCHANGED <<generation, itemCount, intersecting, reported, NotGrid>>

\* grid.cleanup()
Cleanup ==
    /\ itemCount > 0
    /\ observed' = {}
    /\ intersecting' = {}
    /\ placeholderContent' = [i \in GridIndices |-> Unrendered]
    /\ renderedItems' = {}
    /\ isRendering' = FALSE
    /\ itemCount' = 0
    /\ reported' = {}
    /\ renders' = [i \in GridIndices |-> 0]
    /\ UNCHANGED <<generation, frames, NotGrid>>

\* grid.updateItems(newItems) with n new items
UpdateItems(n) ==
    /\ generation < MaxGenerations
    /\ generation' = generation + 1
    /\ itemCount' = n
    /\ placeholderContent' = [i \in GridIndices |-> Unrendered]
    /\ observed' = 1..n
    /\ intersecting' = {}
    /\ renderedItems' = {}
    /\ isRendering' = FALSE
    /\ reported' = {}
    /\ renders' = [i \in GridIndices |-> 0]
    /\ UNCHANGED <<frames, NotGrid>>

NextGrid ==
    \/ \E S \in SUBSET GridIndices : Intersect(S)
    \/ \E i \in GridIndices : Leave(i)
    \/ Frame
    \/ Cleanup
    \/ \E n \in GridIndices : UpdateItems(n)

\* The grid in a browser that runs every animation frame it was asked for.
SpecGrid == InitGrid /\ [][NextGrid]_vars /\ WF_vars(Frame)

\* ----------------------------------------------------- navigation claims
\* The load started by the latest navigation.
Latest == nextId - 1

\* C1: when the user navigates to another route while the load of the
\* previous route is still pending, the page or error shown in main-content
\* is always that of the latest navigation: the late result of a superseded
\* load is never rendered, and the result of the latest load is.
C1_LatestRouteRendered ==
    /\ content.kind \in {"page", "error"}
          => content.by = Latest /\ content.route = currentRoute
    /\ (settled.id # 0 /\ settled.id = Latest /\ ~aborted[settled.id]
            /\ settled.l.result \in {"data", "cached"})
          => /\ content.kind = "page"
             /\ content.route = currentRoute
             /\ content.data = settled.l.data
    /\ (settled.id # 0 /\ settled.id = Latest /\ ~aborted[settled.id]
            /\ settled.l.result = "error")
          => content.kind = "error" /\ content.route = currentRoute

\* The superseded load of main has just settled, after its response had
\* been requested, and main-content holds the page of collections.
C1_Witness ==
    /\ settled.id = 1
    /\ settled.l.route = "main"
    /\ settled.l.abortPc \in {"fetch", "json"}
    /\ settled.l.result = "abort"
    /\ currentRoute = "collections"
    /\ content.kind = "page"
    /\ content.route = "collections"
    /\ content.by = 2

\* C3: Router.navigate aborts the controller of the previous navigation
\* before it starts the new page load with a fresh controller: at any moment
\* the only signal handed out by the router that is not aborted is the one of
\* Router.abortController.
C3_OneLiveSignal ==
    \A id \in 1..MaxLoads :
        (id < nextId /\ ~aborted[id]) => id = abortController

\* A second navigation has aborted the first one while its load was pending.
C3_Witness ==
    /\ nextId > 2
    /\ aborted[1]
    /\ ~aborted[2]
    /\ abortController = 2
    /\ loads[1].pc \in {"fetch", "json", "delay"}
    /\ loads[1].abortPc = loads[1].pc

\* --------------------------------------------------------- loader claims
\* C2: a loadJSON call whose signal is aborted while its fetch is pending
\* ends without a further fetch and without having changed the Store (no
\* set, no clear, no eviction), whatever forceReload is.
C2_CancelledCallLeavesStore ==
    (settled.id # 0 /\ settled.l.abortPc = "fetch")
        => /\ settled.l.result = "abort"
           /\ settled.l.fetches = settled.l.fetchesAtAbort
           /\ settled.l.muts = 0

\* The waits of a call that made n attempts: 1000 ms, 2000 ms, ...
LinearWaits(n) == [k \in 1..(n - 1) |-> RetryBaseDelay * k]

\* C4: a loadJSON call all of whose attempts fail with an error other than
\* a cancellation makes exactly `retries` fetch attempts, waits 1000 ms times
\* the attempt index between consecutive attempts, and rejects with the
\* error of its last attempt.
C4_RetriesThenRejects ==
    [][\A id \in 1..MaxLoads,
          out \in {"http", "contentType", "parse", "validation"} :
          ((FetchSettle(id, out)
               \/ \E data \in Payloads, w \in WriteOutcomes :
                     JsonSettle(id, out, data, w, NoWrite))
             /\ settled'.l.result = "error")
              => /\ settled'.id = id
                 /\ settled'.l.error = out
                 /\ settled'.l.fetches = settled'.l.retries
                 /\ settled'.l.waits = LinearWaits(settled'.l.retries)]_vars

\* A call with retries = 3 has rejected after waiting 1000 ms and 2000 ms.
C4_Witness ==
    /\ settled.l.result = "error"
    /\ settled.l.error = "validation"
    /\ settled.l.retries = 3
    /\ settled.l.fetches = 3
    /\ settled.l.waits = <<1000, 2000>>

\* C5: a non-forced load of a route with an unexpired Store entry returns
\* the cached payload without network access; in particular a second load
\* within the TTL window of a successful network load of the same route
\* returns that payload with zero fetch calls.
C5_FreshEntryNoNetwork ==
    [][\A route \in Routes, showLoader \in BOOLEAN, retries \in 1..MaxRetries :
          CallLoadJSON(route, showLoader, FALSE, retries)
              => LET fresh == StoreHas(St, route, now).result
                     again == /\ lastNet.route = route
                              /\ now - lastNet.t <= cacheMaxAge
                 IN  (fresh \/ again)
                        => /\ settled'.id = nextId
                           /\ settled'.l.result = "cached"
                           /\ settled'.l.fetches = 0
                           /\ fresh => settled'.l.data
                                          = StoreGet(St, route, now).result
                           /\ again => settled'.l.data = lastNet.data]_vars

\* ---------------------------------------------------------- Store claims
\* The bytes the entries held in memory serialize to.
RECURSIVE SumState(_, _)
SumState(S, k) ==
    IF k > Len(RouteOrder) THEN 0
    ELSE (IF S.state[RouteOrder[k]] = Null THEN 0
          ELSE BlobSize(Stringify(S.state[RouteOrder[k]])))
         + SumState(S, k + 1)

TotalSize(S) == SumState(S, 1)

\* The routes of a sequence of evictions.
Evicted(ev) == {ev[k] : k \in 1..Len(ev)}

\* C6: for every route R, Store.set(R, p) immediately followed by
\* Store.get(R) returns a payload equal to p, provided the write did not
\* evict R itself.
C6_SetThenGet ==
    [][\A route \in Routes, data \in Payloads, w \in WriteOutcomes :
          Set(route, data, w[1], w[2])
              => LET r == StoreSet(St, route, data, w[1], w[2], now)
                 IN  route \notin (Evicted(r.ev) \cup Evicted(r.ev2))
                        => StoreGet(St', route, now').result = data]_vars

RECURSIVE SumItems(_, _, _)
\* Bytes freed by the first k evictions of ev, measured before the eviction.
SumItems(S, ev, k) ==
    IF k = 0 THEN 0
    ELSE BlobSize(S.transientStore[ev[k]]) + SumItems(S, ev, k - 1)

\* The eviction ev made by set(route, ...) for requiredSpace bytes from the
\* Store S follows the least-recently-used order: never the route written,
\* never an entry while an older entry of another route remains, and no
\* eviction once the freed bytes reach the required bytes.
LruOrder(S, route, ev, requiredSpace) ==
    /\ \A k \in 1..Len(ev) : ev[k] # route
    /\ \A k \in 1..Len(ev) : \A o \in Routes \ {route} :
          (S.state[o] # Null /\ S.lastUsed[o] < S.lastUsed[ev[k]])
              => \E j \in 1..(k - 1) : ev[j] = o
    /\ \A k \in 1..Len(ev) : SumItems(S, ev, k - 1) < requiredSpace

\* C7: when Store.set(R, p) would exceed the byte budget, entries are
\* evicted in ascending order of last use among the routes other than R,
\* stopping as soon as the freed bytes reach the required bytes; R is never
\* evicted and no entry is evicted while an older one (other than R) remains.
C7_EvictsLeastRecentlyUsed ==
    [][\A route \in Routes, data \in Payloads, w \in WriteOutcomes :
          Set(route, data, w[1], w[2])
              => LET oldSize == IF state[route] # Null
                                   /\ transientStore[route] # NoItem
                                THEN BlobSize(transientStore[route]) ELSE 0
                     newTotalSize == currentSize - oldSize
                                     + BlobSize(Stringify(data))
                     r == StoreSet(St, route, data, w[1], w[2], now)
                 IN  newTotalSize > maxSize
                        => LruOrder(St, route, r.ev, newTotalSize - maxSize)]_vars

\* C8: after any sequence of Store operations there is at most one entry per
\* route and the entries together serialize to at most maxSize bytes.
C8_WithinByteBudget ==
    /\ DOMAIN state = Routes
    /\ TotalSize(St) <= maxSize

\* A non-forced loadJSON of route, with the default retries, on the Store S
\* at time t, up to its first await.
NextLoadOf(S, route, t) ==
    LoadJSONStart([id |-> 1,
                   l |-> [IdleLoad EXCEPT !.route = route,
                                          !.retries = DefaultRetries],
                   s |-> S, d |-> Dom, clr |-> NoRoute, net |-> NoNet],
                  [id \in 1..MaxLoads |-> FALSE], NoWrite, t).l

\* C9: Store.has(route) is true only for an entry (in memory or in session
\* storage) whose age since its last load is within cacheMaxAge; an older
\* entry is removed by the has() call itself, and the next load of that
\* route goes to the network.
C9_HasOnlyFresh ==
    [][\A route \in Routes :
          Has(route)
              => LET exists == state[route] # Null
                               \/ transientStore[route] # NoItem
                     lastLoad == lastLoadTime[route]
                 IN  /\ lastOp'.found
                          => /\ exists
                             /\ lastLoad # Undef
                             /\ now - lastLoad <= cacheMaxAge
                     /\ (exists /\ lastLoad # Undef
                                /\ now - lastLoad > cacheMaxAge)
                          => /\ ~lastOp'.found
                             /\ state'[route] = Null
                             /\ transientStore'[route] = NoItem
                             /\ NextLoadOf(St', route, now').pc = "fetch"
                             /\ NextLoadOf(St', route, now').fetches = 1]_vars

\* has() has just removed an entry that was older than cacheMaxAge.
C9_Witness ==
    /\ lastOp.op = "has"
    /\ lastOp.removed
    /\ ~lastOp.found
    /\ now > 1 + cacheMaxAge

\* C10: when the session-storage write of Store.set(R, p) fails with a quota
\* error and the retry after a further eviction fails too, the in-memory
\* entry of R remains (get(R) returns p) and the persisted view does not
\* contradict it.
C10_QuotaKeepsMemoryEntry ==
    [][\A route \in Routes, data \in Payloads :
          Set(route, data, "quota", "quota")
              => /\ state'[route] = data
                 /\ StoreGet(St', route, now').result = data
                 /\ \/ transientStore'[route] = NoItem
                    \/ Parse(transientStore'[route]) = state'[route]]_vars

\* ------------------------------------------------------------------ C11
\* The call did not throw.
Returned == ~lastCall.threw

\* The cache answered the call from memory alone.
MemoryOnly ==
    CASE lastCall.op = "set" -> state[lastCall.arg] = lastCall.value
      [] lastCall.op = "get" -> lastCall.value = state[lastCall.arg]
      [] lastCall.op = "has" -> lastCall.ok => state[lastCall.arg] # Null
      [] lastCall.op = "clear" -> state[lastCall.arg] = Null
      [] lastCall.op = "clearAll" -> \A r \in Routes : state[r] = Null
      [] OTHER -> TRUE

\* The settings accessor gave its default, or false.
DefaultOrFalse ==
    CASE lastCall.op = "getSetting" -> lastCall.value = DefaultValue
      [] lastCall.op \in {"setSetting", "removeSetting", "clearSettings"} ->
           ~lastCall.ok
      [] OTHER -> TRUE

\* C11: a Store operation called while its storage is missing, throws or is
\* over quota does not throw; a cache method then behaves as a memory-only
\* cache and a settings accessor returns its default or false.
C11_DegradesWithoutThrowing ==
    lastCall.failing => Returned /\ MemoryOnly /\ DefaultOrFalse

\* ------------------------------------------------------------------ C12
\* C12: after any sequence of Store operations currentSize is the sum of the
\* serialized sizes of the entries held, hence never negative, and it is 0
\* once clear() has run or every route has been cleared.
C12_SizeIsSumOfEntries ==
    /\ currentSize >= 0
    /\ currentSize = TotalSize(St)
    /\ lastOp.op = "clearAll" => currentSize = 0

\* ------------------------------------------------------------------ C13
\* The step is a call of store.get.
GetStep == ops' = ops + 1 /\ lastCall'.op = "get"

\* The get found nothing or could not parse: null, no exception, no change.
MissLeavesStore ==
    /\ ~lastCall'.threw
    /\ lastCall'.value = Null
    /\ UNCHANGED storeVars

\* The entries of the other routes are as they were.
OthersKept(route) ==
    \A r \in Routes \ {route} :
        /\ state'[r] = state[r]
        /\ lastUsed'[r] = lastUsed[r]
        /\ lastLoadTime'[r] = lastLoadTime[r]

\* C13 as stated: a get that returns a payload sets the last-used and the
\* last-loaded time of the route to now and leaves the payload in memory; a
\* get that returns nothing returns null without throwing or changing an
\* entry.
C13_HitStampsBoth ==
    [][GetStep =>
         LET route == lastCall'.arg
         IN  IF lastCall'.ok
             THEN /\ state'[route] = lastCall'.value
                  /\ lastUsed'[route] = now
                  /\ lastLoadTime'[route] = now
             ELSE MissLeavesStore]_vars

\* C13, amended: a get that returns a payload sets the last-used time of
\* the route to now and leaves the payload in memory; the last-loaded time
\* is set to now only for a payload restored from session storage whose
\* route has none, and is otherwise left as it was; a get that returns
\* nothing returns null without throwing or changing an entry.
C13_HitStampsLastUsed ==
    [][GetStep =>
         LET route == lastCall'.arg
         IN  IF lastCall'.ok
             THEN /\ state'[route] = lastCall'.value
                  /\ lastUsed'[route] = now
                  /\ lastLoadTime'[route] =
                        IF state[route] = Null /\ lastLoadTime[route] = Undef
                        THEN now ELSE lastLoadTime[route]
                  /\ OthersKept(route)
             ELSE MissLeavesStore]_vars

\* A get has returned a payload from memory whose last-loaded time is older
\* than the call.
C13_Witness ==
    /\ lastCall.op = "get"
    /\ lastCall.ok
    /\ lastUsed[lastCall.arg] = now
    /\ lastLoadTime[lastCall.arg] < now

C15_ForcedReloadRefetches ==
    [][/\ \A route \in Routes, showLoader \in BOOLEAN, retries \in 1..MaxRetries :
            CallLoadJSON(route, showLoader, TRUE, retries)
                => /\ state'[route] = Null
                   /\ transientStore'[route] = NoItem
                   /\ loads'[nextId].pc = "fetch"
                   /\ loads'[nextId].fetches = 1
       /\ (settled'.id # 0 /\ settled'.l.forceReload
              /\ settled'.l.result = "data")
            => state'[settled'.l.route] = settled'.l.data
       /\ \A route \in Routes :
            WrapperForce(route, TRUE) <=> route = "collections"]_vars

\* ------------------------------------------------------------------ C16
\* The route table entry a hash names: the hash is '#/' followed by exactly
\* the name of a route.
Matching(location) ==
    IF Len(location) = 3 /\ location[1] = "#" /\ location[2] = "/"
       /\ location[3] \in Routes
    THEN location[3] ELSE "main"

\* C16: handleRoute sets the current route to the route table entry the
\* hash names and to 'main' for every other hash, so that the current
\* route, once set, is always a known route.
C16_HashToKnownRoute ==
    [][/\ \A location \in Hashes :
            HandleRoute(location) => currentRoute' = Matching(location)
       /\ currentRoute' # NoRoute => currentRoute' \in Routes]_vars

\* The router is on the default route after a hash that names no route,
\* having been on another route before.
C16_Witness ==
    /\ currentRoute = "main"
    /\ nextId = 3
    /\ \E id \in 1..MaxLoads : loads[id].route = "collections"

\* ------------------------------------------------------------------ C17
\* C17: a page load whose signal is aborted when it ends, whether before it
\* started, while the response was pending or during a retry delay, has put
\* no error panel into main-content.
C17_CancelledLoadShowsNoError ==
    (settled.id # 0 /\ settled.l.page /\ aborted[settled.id])
        => /\ settled.l.result \in {"abort", "skipped", "data", "cached"}
           /\ ~(content.kind = "error" /\ content.by = settled.id)

\* A page load has ended by the cancellation that reached it during the
\* delay before a retry.
C17_Witness ==
    /\ settled.id # 0
    /\ settled.l.page
    /\ aborted[settled.id]
    /\ settled.l.result = "abort"
    /\ settled.l.abortPc = "delay"
    /\ content.kind # "error"

\* ------------------------------------------------------------------ C18
\* The step is a call of a cache method / of a settings accessor.
CacheStep ==
    ops' = ops + 1 /\ lastCall'.op \in {"set", "get", "has", "clear", "clearAll"}

SettingStep ==
    ops' = ops + 1
    /\ lastCall'.op \in {"getSetting", "setSetting", "removeSetting",
                         "clearSettings"}

\* C18: no cache method (set with its evictions, get, has with its expiry,
\* clear of one route or of all) changes a durable key, no settings accessor
\* changes a cache entry, a timestamp, the byte counter or session storage,
\* and a clearSettings that succeeds removes the keys of the settings
\* namespace and no other durable key.
C18_SettingsApartFromCache ==
    [][/\ CacheStep => persistentStore' = persistentStore
       /\ SettingStep => UNCHANGED storeVars
       /\ (SettingStep /\ lastCall'.op = "clearSettings" /\ lastCall'.ok)
            => \A k \in DurableKeys :
                  persistentStore'[k] = IF k[1] = SettingPrefix THEN NoItem
                                        ELSE persistentStore[k]]_vars

\* clearSettings has run as the second call: no key of the settings
\* namespace is left, the other durable key and the entry of the cache are.
C18_Witness ==
    /\ lastCall.op = "clearSettings"
    /\ lastCall.ok
    /\ ops = 2
    /\ \A k \in DurableKeys :
          persistentStore[k] # NoItem <=> k[1] # SettingPrefix
    /\ state[RouteOrder[1]] # Null
    /\ currentSize > 0

\* ------------------------------------------------------------------ C19
\* The step hands out the promise of a new preloadImage / preloadVideo call.
PreloadStep(type, src) ==
    /\ nextEl' = nextEl + 1
    /\ elements'[nextEl].type = type
    /\ elements'[nextEl].src = src

\* C19: no promise of preloadImage or preloadVideo is ever rejected; the
\* load event and the error event of the element resolve it, and a call for
\* a URL recorded as loaded returns a resolved promise; the error event
\* records nothing as loaded.
C19_PreloadNeverRejects ==
    [][/\ \A id \in 1..MaxPreloads : elements'[id].promise # "rejected"
       /\ \A id \in 1..MaxPreloads :
            (elements[id].promise = "pending" /\ elements'[id].promise # "pending")
                => /\ elements'[id].promise = "resolved"
                   /\ \/ loadedImages' = loadedImages /\ loadedVideos' = loadedVideos
                      \/ MapHas(CacheOf(Pre', elements[id].type), elements[id].src)
       /\ \A id \in 1..MaxPreloads :
            MediaError(id) => loadedImages' = loadedImages
                              /\ loadedVideos' = loadedVideos
       /\ \A type \in {"image", "video"}, src \in Urls :
            (PreloadStep(type, src) /\ queue' = queue
                  /\ MapHas(CacheOf(Pre, type), src))
                => elements'[nextEl].promise = "resolved"]_vars

\* ------------------------------------------------------------------ C20
\* C20: at every moment each of loadedImages and loadedVideos holds at most
\* maxCacheSize entries.
C20_AtMostMaxCacheSize ==
    /\ Len(loadedImages) <= maxCacheSize
    /\ Len(loadedVideos) <= maxCacheSize

\* ---- C21 ----

\* The entries of all batches, in the order in which they were issued.
RECURSIVE Flatten(_)
Flatten(seqs) == IF seqs = <<>> THEN <<>> ELSE Head(seqs) \o Flatten(Tail(seqs))

\* The call of preloadFromData itself hands nothing to preloadImage or
\* preloadVideo.
CallRequestsNothing ==
    (dataCall' # dataCall /\ dataCall'.batches = <<>>)
        => (elements' = elements /\ nextEl' = nextEl)

\* The batches issued so far are the consecutive slices of the URLs that the
\* call kept, each of at most batchSize entries and every one but the last of
\* exactly batchSize, and none holds a URL that was recorded when the call
\* was made.
BatchesInOrder ==
    /\ Flatten(dataCall.batches) \o queue = dataCall.wanted
    /\ \A k \in 1..Len(dataCall.batches) :
          /\ Len(dataCall.batches[k]) \in 1..batchSize
          /\ k < Len(dataCall.batches) => Len(dataCall.batches[k]) = batchSize
          /\ \A i \in 1..Len(dataCall.batches[k]) :
                dataCall.batches[k][i] \notin dataCall.known

\* C21: preloadFromData returns without having requested a resource; the
\* URLs not recorded as loaded at the call are then requested in consecutive
\* batches of at most batchSize, one deferred callback per batch, until all of
\* them have been requested; a URL recorded as loaded at the call is never
\* requested.
C21_BatchesUntilAllRequested ==
    /\ [][CallRequestsNothing]_vars
    /\ []BatchesInOrder
    /\ (queue # <<>>) ~> (queue = <<>> /\ Flatten(dataCall.batches) = dataCall.wanted)

\* A call has been served by two batches, the second one shorter.
C21_Witness ==
    /\ Len(dataCall.batches) = 2
    /\ Len(dataCall.batches[2]) < batchSize
    /\ queue = <<>>

\* ---- C22 ----

\* <<x>> when x is a URL, nothing otherwise.
Opt(x) == IF x = NoUrl THEN <<>> ELSE <<x>>

RECURSIVE Concat(_)
Concat(seqs) == IF seqs = <<>> THEN <<>> ELSE Head(seqs) \o Concat(Tail(seqs))

\* The image URLs and the video URLs under a list of videos, in its order.
ThumbnailsOf(videos) == Concat([i \in 1..Len(videos) |-> Opt(videos[i].thumbnail)])
VideoUrlsOf(videos) == Concat([i \in 1..Len(videos) |-> Opt(videos[i].url)])

\* The image URLs of the payload in document order: per post mainImage, the
\* screenshots, the video's thumbnail; per collection image its url, its
\* screenshots, its videos' thumbnails; per group its screenshots and its
\* videos' thumbnails; per history entry its images; the profile avatar.
ImagesInDocumentOrder(d) ==
    Concat([i \in 1..Len(d.posts) |->
               Opt(d.posts[i].mainImage) \o d.posts[i].screenshots
               \o Opt(d.posts[i].video.thumbnail)])
    \o Concat([c \in 1..Len(d.collections) |->
                 Concat([i \in 1..Len(d.collections[c].images) |->
                     Opt(d.collections[c].images[i].url)
                     \o d.collections[c].images[i].screenshots
                     \o ThumbnailsOf(d.collections[c].images[i].videos)])])
    \o Concat([g \in 1..Len(d.groups) |->
                 d.groups[g].screenshots \o ThumbnailsOf(d.groups[g].videos)])
    \o Concat([e \in 1..Len(d.entries) |-> d.entries[e].images])
    \o Opt(d.profile.avatar)

\* The video URLs of the payload in document order.
VideosInDocumentOrder(d) ==
    Concat([i \in 1..Len(d.posts) |-> Opt(d.posts[i].video.url)])
    \o Concat([c \in 1..Len(d.collections) |->
                 Concat([i \in 1..Len(d.collections[c].images) |->
                     VideoUrlsOf(d.collections[c].images[i].videos)])])
    \o Concat([g \in 1..Len(d.groups) |-> VideoUrlsOf(d.groups[g].videos)])

\* The example payload: one post with mainImage 1, screenshots [2] and a
\* video with thumbnail 4 and url 5.
ExamplePost ==
    [EmptyData EXCEPT !.posts = <<[mainImage |-> 1, screenshots |-> <<2>>,
                                   video |-> [thumbnail |-> 4, url |-> 5]]>>]

\* C22: extractMediaUrls returns all image URLs and all video URLs of the
\* payload in document order; the example post gives the images [1, 2, 4]
\* and the videos [5].
C22_AllUrlsInDocumentOrder ==
    extracted # NoResult =>
        /\ extracted.imageUrls = ImagesInDocumentOrder(mediaData)
        /\ extracted.videoUrls = VideosInDocumentOrder(mediaData)
        /\ mediaData = ExamplePost =>
              extracted = [imageUrls |-> <<1, 2, 4>>, videoUrls |-> <<5>>]

\* The extractor has returned for the example post.
C22_Witness ==
    /\ mediaData = ExamplePost
    /\ extracted # NoResult
    /\ extracted.imageUrls = <<1, 2, 4>>

\* ---- C23 ----

\* The value has the type the validator promises for a property of the kind.
TypedAs(v, kind) ==
    CASE kind \in {"req", "opt"} -> v.t = "string"
      [] kind = "optNull" -> v.t \in {"string", "null"}
      [] kind = "arr" -> v.t = "array"
      [] kind = "video" ->
           /\ v.t = "object"
           /\ \A n \in {"url", "thumbnail", "duration"} :
                n \in DOMAIN v.fields /\ v.fields[n].t = "string"

\* An object that has every one of the properties, each of its type.
HasFields(v, fields) ==
    /\ v.t = "object"
    /\ \A i \in 1..Len(fields) :
         /\ fields[i].name \in DOMAIN v.fields
         /\ TypedAs(v.fields[fields[i].name], fields[i].kind)

\* An array whose elements are objects with the properties of the kind.
ArrayOf(v, kind) ==
    /\ v.t = "array"
    /\ \A i \in 1..Len(v.items) : HasFields(v.items[i], FieldsOf(kind))

\* The object an entry point returns is complete and of the right types.
Normalized(entry, val) ==
    /\ val.t = "object"
    /\ IF entry = "validateAbout"
       THEN /\ HasFields(val, FieldsOf("about"))
            /\ "profile" \in DOMAIN val.fields
            /\ HasFields(val.fields.profile, FieldsOf("profile"))
            /\ \A n \in {"timeline", "links", "stats", "sections"} :
                 ArrayOf(val.fields[n], n)
       ELSE /\ DOMAIN val.fields = {EntryPoints[entry].name}
            /\ ArrayOf(val.fields[EntryPoints[entry].name],
                       EntryPoints[entry].kind)
            /\ entry = "validateCollections" =>
                 \A i \in 1..Len(val.fields.collections.items) :
                    ArrayOf(val.fields.collections.items[i].fields.images,
                            "image")

\* C23: an entry point of the DataValidator never throws, returns null only
\* for a payload that is no object, otherwise returns a normalized object,
\* records an error for a mistyped property, and hasErrors() is true exactly
\* when the call recorded an error.
C23_NeverThrowsAndReportsErrors ==
    validated # NoResult =>
        /\ ~validated.threw
        /\ validated.val = JNull => validated.top # "object"
        /\ validated.val # JNull => Normalized(validated.entry, validated.val)
        /\ validated.mistyped => validated.recorded > 0
        /\ HasErrors(validatorErrors) <=> validated.recorded > 0

\* ---- C24 ----

\* The subscriptions the emit invoked itself, in the order of invocation.
InvokedBy(log) ==
    LET Outer(e) == e.depth = 0
        outer == SelectSeq(log, Outer)
    IN  [i \in 1..Len(outer) |-> Listener(outer[i].cb, outer[i].wrapper)]

\* C24: emit invokes every callback subscribed when it is called exactly
\* once and in subscription order, whatever the callbacks do.
C24_EmitInvokesAllInOrder ==
    lastEmit.done => InvokedBy(lastEmit.log) = lastEmit.subscribed

\* ---- C25 ----

\* The wrapper w is subscribed.
Subscribed(w) == \E i \in 1..Len(listeners) : listeners[i].wrapper = w

\* C25: a callback registered with once is invoked at most once over all
\* emits, and is no longer subscribed after its first invocation.
C25_OnceAtMostOnce ==
    \A w \in 1..MaxSubscriptions :
        /\ onceCalls[w] <= 1
        /\ onceCalls[w] >= 1 => ~Subscribed(w)

\* ---- C26 ----

\* popContent returns false exactly for an empty stack and then leaves the
\* markup as it is; close leaves the stack empty.
PopAndCloseOnStack ==
    /\ modalLog.op = "pop" =>
          /\ ~modalLog.returned <=> modalLog.stack = <<>>
          /\ ~modalLog.returned => modalContent = modalLog.shown
    /\ modalLog.op = "close" => contentStack = <<>>

C27_CloseRestoresPage ==
    modalLog.op = "close" =>
        /\ ariaHidden = modalLog.aria
        /\ \A h \in keydown : h.kind \notin {"trap", "page"}

\* ---- C28 ----

\* C28: after any next, prev and goTo calls currentIndex is an integer from
\* 0 to totalItems - 1, and a goTo with an index out of that range leaves
\* currentIndex as it was.
C28_IndexInRange ==
    /\ currentIndex \in 0..(totalItems - 1)
    /\ (carouselLog.op = "goTo" /\ carouselLog.target \notin 0..(totalItems - 1))
          => currentIndex = carouselLog.before


\* ---------------------------------------------------- VirtualizedGrid claim
\* Placeholder i of the current list holds the content rendered for it.
Shown(i) == placeholderContent[i] # Unrendered

\* C29: every item whose placeholder the observer reports as intersecting is
\* eventually rendered, also when several placeholders come into view in one
\* observer callback; each item is rendered at most once; and no item is
\* marked as rendered unless its placeholder holds its rendered content,
\* after updateItems and cleanup too.
C29_ReportedItemsRenderedOnce ==
    /\ \A i \in GridIndices : (i \in reported) ~> (Shown(i) \/ i \notin reported)
    /\ [](\A i \in GridIndices : renders[i] <= 1)
    /\ [](\A i \in renderedItems : Shown(i))


\* ------------------------------------------------- superseded load claim
\* A newer navigation has started since the load id did.
Superseded(id) == id < Latest

\* This step is one of the load id: its fetch, its response body or its
\* backoff settles, or the animation frame it asked for runs.
StepOf(id) ==
    \/ loads[id].pc # "idle" /\ loads'[id] # loads[id]
    \/ id \in rafHides /\ id \notin rafHides'

\* C30: once a page load has been superseded by a newer navigation, it
\* makes no further change to main-content; in particular its cancellation
\* or failure path never hides or removes the loading indicator of the
\* newer load, which is still pending.
C30_SupersededLoadLeavesContent ==
    [][\A id \in 1..MaxLoads :
          (Superseded(id) /\ StepOf(id)) => content' = content]_vars

====
